---------------------------- MODULE Spec2Model ----------------------------
(***************************************************************************)
(* Model of the givy allocator core: the superpage tracker (two revisions  *)
(* of superpage_tracker.h are present in the repository), the superpage    *)
(* block / page block manager and the thread local heaps of allocator.h.   *)
(*                                                                         *)
(* Build modelled: the default assertion level (ASSERT_LEVEL_STD, see      *)
(* reporting.h:30-33): ASSERT_STD / ASSERT_OPT / ASSERT_FAIL abort the     *)
(* process, ASSERT_SAFE expands to nothing.                                *)
(***************************************************************************)
EXTENDS Integers, Sequences, FiniteSets, Bags, TLC

(***************************************************************************)
(* Sizes.  The word width and the node size are scaled down.               *)
(***************************************************************************)
\* BitMask<IntType>::bits : number of bits of one table word
Bits == 2
\* number of superpages of one node
SuperpageByNode == 5
\* layout of the tracker test: 3 nodes, the local node is the middle one
NbNode == 3
LocalNode == 1
\* largest number of superpages a tracker client asks for in TrackerSpec
MaxCount == 4
\* largest number of ranges one tracker client holds at a time
MaxHeld == 1

\* memory sizes, in units of the smallest block: PageSize = 2^PageShift,
\* SuperpagePageNB = 2^SuperpagePageShift
PageShift == 1
SuperpagePageShift == 2
\* Thresholds::Smallest
Smallest == 1
\* SuperpageBlock::HeaderSpacePages
HeaderSpacePages == 1
\* number of exact size slots of PageBlockUnusedList
exact_size_slot_nb == 2
\* largest size passed to allocate in the round trips
MaxSize == 9
\* HeapSpec: largest number of allocate calls, of live blocks, of threads that exit
MaxAllocate == 2
MaxLive == 2
MaxExit == 1
\* DeepSpec: largest number of allocate calls, of live blocks, of deallocate calls
DeepAllocate == 5
DeepLive == 4
DeepDeallocate == 1
\* CrossSpec: number of allocate calls of the allocation phase
CrossAllocate == 3
\* OwnerSpec: largest number of allocate calls
OwnerAllocate == 4
\* OrphanSpec: largest number of allocate calls of the thread that exits
OrphanAllocate == 4
\* SerialSpec: largest count of one acquire, largest number of ranges held
SerialCount == 3
SerialHeld == 5
\* PageSpec: largest number of allocate calls
PageAllocate == 4
\* ZeroSpec: largest number of allocate calls
ZeroAllocate == 5
\* FatalSpec: largest number of allocate calls
FatalAllocate == 4
\* InsideSpec: largest number of allocate calls
InsideAllocate == 3
\* RaceSpec: largest number of allocate calls
RaceAllocate == 3
\* ListSpec: number of elements pushed on the atomic list
ListElements == 3

\* tracker clients of TrackerSpec
Threads == {1, 2}
\* thread local heaps of HeapSpec
Heaps == {1, 2, 3}

SuperpageTotal == SuperpageByNode * NbNode
divide_up(n, d) == (n + d - 1) \div d
table_size == divide_up(SuperpageTotal, Bits)
Words == 0 .. (table_size - 1)
BitIdx == 0 .. (Bits - 1)

Min(a, b) == IF a < b THEN a ELSE b
Max(a, b) == IF a < b THEN b ELSE a
SetMax(S) == CHOOSE x \in S : \A y \in S : y <= x
SetMin(S) == CHOOSE x \in S : \A y \in S : x <= y

(***************************************************************************)
(* BitMask: a word is the set of its set bits (bit 0 = LSB).               *)
(***************************************************************************)
zeros == {}
ones == BitIdx

\* 1s in [start, end[ ; callers always pass start <= end <= Bits
window_bound(start, end) == {i \in BitIdx : start <= i /\ i < end}

\* number of 0 bits above the highest set bit
count_msb_zeros(c) == IF c = {} THEN Bits ELSE (Bits - 1) - SetMax(c)

\* number of consecutive 1 bits downward from the MSB
count_msb_ones(c) == count_msb_zeros(BitIdx \ c)

\* c << n, truncated to the word
shl(c, n) == {i + n : i \in {j \in c : j + n < Bits}}

\* offset of the first window of len 0s inside [from_bit, up_to_bit[, or Bits
find_zero_subsequence(searched, len, from_bit, up_to_bit) ==
    LET ends == {e \in (from_bit + len) .. up_to_bit :
                     searched \cap window_bound(e - len, e) = {}}
    IN IF ends = {} THEN Bits ELSE SetMin(ends) - len

\* offset of the last 0 in c:[0, pos], or Bits
find_previous_zero(c, pos) ==
    LET distance_to_prev_zero == count_msb_ones(shl(c, (Bits - 1) - pos))
    IN IF distance_to_prev_zero > pos THEN Bits ELSE pos - distance_to_prev_zero

(***************************************************************************)
(* SuperpageTracker::Index                                                 *)
(***************************************************************************)
Index(a, b) == [a |-> a, b |-> b]
IndexOf(superpage_num) == Index(superpage_num \div Bits, superpage_num % Bits)
superpage_num(i) == i.a * Bits + i.b
IndexLess(i, j) == i.a < j.a \/ (i.a = j.a /\ i.b < j.b)
next_array_cell_first_bit(i) == Index(i.a + 1, 0)
\* Index::next of the newer revision
IndexNext(i) == IF i.b = Bits - 1 THEN Index(i.a + 1, 0) ELSE Index(i.a, i.b + 1)

local_area_start == SuperpageByNode * LocalNode
local_area_end == SuperpageByNode * (LocalNode + 1)
search_start == IndexOf(local_area_start)
\* a search that ends one superpage after the interval
search_end_late == IndexOf(local_area_end + 1)
search_end == IndexOf(local_area_end)
LocalSuperpages == local_area_start .. (local_area_end - 1)


(***************************************************************************)
(* State.                                                                  *)
(***************************************************************************)
VARIABLES
    rev,             \* which revision of superpage_tracker.h is built: "old" (src/), "new" (src/src/)
    mapping_table,   \* word index -> word
    sequence_table,  \* word index -> word
    pc,              \* tracker client: position in acquire / release / trim
    loc,             \* tracker client: locals of the running call
    held,            \* tracker client: ranges <<first, count>> returned by acquire and not given back
    spb,             \* first superpage number -> SuperpageBlock header stored there (or unmapped)
    links,           \* intrusive List cell -> [prev, next]
    inbox,           \* thread -> remote_freed_blocks, front first, entries [ptr, spb]
    fault,           \* "none", or why the process died
    apc,             \* allocator thread: position in allocate / deallocate / ~ThreadLocalHeap
    aloc,            \* allocator thread: locals of the running deallocate
    live,            \* bag of the blocks [ptr, size, by] returned by allocate (to thread by) and not yet passed to deallocate
    nb_allocate,     \* number of allocate calls made so far
    foreign,         \* a thread wrote page block state of an SPB whose owner field was not this thread
    adopters,        \* first superpage number -> threads that saw adopt return true since the last disown
    head,            \* ForwardList::Atomic::head of the list under test: an element, or nullptr
    next,            \* element -> its Element::next field
    detached         \* bag of the elements that are not on the atomic list and not being pushed

tracker_vars == <<rev, mapping_table, sequence_table>>
client_vars == <<pc, loc, held>>
heap_vars == <<spb, links, inbox, fault, foreign, adopters, head, next, detached>>
thread_vars == <<apc, aloc, live, nb_allocate>>

(***************************************************************************)
(* One atomic access to a table word.  tbl is "map" or "seq"; kind is      *)
(* "or" (fetch_or), "and_not" (fetch_and of the complement), "store".      *)
(***************************************************************************)
Op(tbl, kind, i, bits) == [tbl |-> tbl, kind |-> kind, i |-> i, bits |-> bits]

WordAfter(w, op) ==
    CASE op.kind = "or" -> w \cup op.bits
      [] op.kind = "and_not" -> w \ op.bits
      [] op.kind = "store" -> op.bits

TableAfter(table, op) == [table EXCEPT ![op.i] = WordAfter(table[op.i], op)]

\* the stores of a loop "for (i = from; i < to; i++) table[i].store (bits)"
StoreOps(tbl, from, to, bits) ==
    [k \in 1 .. Max(to - from, 0) |-> Op(tbl, "store", from + k - 1, bits)]

(***************************************************************************)
(* src/src/superpage_tracker.h ("new" revision) bit manipulators.          *)
(***************************************************************************)
set_sequence_bits(loc_start, loc_end) ==
    IF loc_start.a = loc_end.a
    THEN IF loc_start.b < loc_end.b
         THEN <<Op("seq", "or", loc_start.a, window_bound(loc_start.b, loc_end.b))>>
         ELSE <<>>
    ELSE <<Op("seq", "or", loc_start.a, window_bound(loc_start.b, Bits))>>
         \o StoreOps("seq", loc_start.a + 1, loc_end.a, ones)
         \o (IF window_bound(0, loc_end.b) # zeros
             THEN <<Op("seq", "or", loc_end.a, window_bound(0, loc_end.b))>>
             ELSE <<>>)

clear_sequence_bits(loc_start, loc_end) ==
    IF loc_start.a = loc_end.a
    THEN IF loc_start.b < loc_end.b
         THEN <<Op("seq", "and_not", loc_start.a, window_bound(loc_start.b, loc_end.b))>>
         ELSE <<>>
    ELSE <<Op("seq", "and_not", loc_start.a, window_bound(loc_start.b, Bits))>>
         \o StoreOps("seq", loc_start.a + 1, loc_end.a, zeros)
         \o (IF window_bound(0, loc_end.b) # zeros
             THEN <<Op("seq", "and_not", loc_end.a, window_bound(0, loc_end.b))>>
             ELSE <<>>)

clear_mapping_bits(loc_start, loc_end) ==
    IF loc_start.a = loc_end.a
    THEN <<Op("map", "and_not", loc_start.a, window_bound(loc_start.b, loc_end.b))>>
    ELSE <<Op("map", "and_not", loc_start.a, window_bound(loc_start.b, Bits))>>
         \o StoreOps("map", loc_start.a + 1, loc_end.a, zeros)
         \o (IF window_bound(0, loc_end.b) # zeros
             THEN <<Op("map", "and_not", loc_end.a, window_bound(0, loc_end.b))>>
             ELSE <<>>)

\* the sequence half of set_bits: set_sequence_bits (loc_start.next (), loc_end)
set_bits_sequence(loc_start, loc_end) == set_sequence_bits(IndexNext(loc_start), loc_end)

clear_bits(loc_start, loc_end) ==
    clear_sequence_bits(IndexNext(loc_start), loc_end) \o clear_mapping_bits(loc_start, loc_end)

trim_bits(loc_start, loc_end) ==
    clear_sequence_bits(IndexNext(loc_start), loc_end)
    \o clear_mapping_bits(IndexNext(loc_start), loc_end)

(***************************************************************************)
(* src/superpage_tracker.h ("old" revision) bit manipulators.              *)
(***************************************************************************)
set_sequence_bits_old(loc_start, loc_end) ==
    IF loc_start.a = loc_end.a
    THEN IF window_bound(loc_start.b + 1, loc_end.b) # zeros
         THEN <<Op("seq", "or", loc_start.a, window_bound(loc_start.b + 1, loc_end.b))>>
         ELSE <<>>
    ELSE <<Op("seq", "or", loc_start.a, window_bound(loc_start.b + 1, Bits))>>
         \o StoreOps("seq", loc_start.a + 1, loc_end.a, ones)
         \o (IF window_bound(0, loc_end.b) # zeros
             THEN <<Op("seq", "or", loc_end.a, window_bound(0, loc_end.b))>>
             ELSE <<>>)

clear_bits_old(loc_start, loc_end) ==
    IF loc_start.a = loc_end.a
    THEN (IF loc_end.b - loc_start.b > 1
          THEN <<Op("seq", "and_not", loc_start.a, window_bound(loc_start.b, loc_end.b))>>
          ELSE <<>>)
         \o <<Op("map", "and_not", loc_start.a, window_bound(loc_start.b, loc_end.b))>>
    ELSE <<Op("seq", "and_not", loc_start.a, window_bound(loc_start.b, Bits))>>
         \o StoreOps("seq", loc_start.a + 1, loc_end.a, zeros)
         \o (IF window_bound(0, loc_end.b) # zeros
             THEN <<Op("seq", "and_not", loc_end.a, window_bound(0, loc_end.b))>>
             ELSE <<>>)
         \o <<Op("map", "and_not", loc_start.a, window_bound(loc_start.b, Bits))>>
         \o StoreOps("map", loc_start.a + 1, loc_end.a, zeros)
         \o (IF window_bound(0, loc_end.b) # zeros
             THEN <<Op("map", "and_not", loc_end.a, window_bound(0, loc_end.b))>>
             ELSE <<>>)

(***************************************************************************)
(* The public calls, as the list of atomic accesses they perform.          *)
(***************************************************************************)
\* release (first, count)
release_ops(r, first, count) ==
    IF r = "new"
    THEN clear_bits(IndexOf(first), IndexOf(first + count))
    ELSE clear_bits_old(IndexOf(first), IndexOf(first + count))

\* ASSERT_STD (loc_end.array_idx < table_size) of the old release
release_aborts(r, first, count) == r = "old" /\ IndexOf(first + count).a >= table_size

\* trim (first, count): the old revision releases (first + 1, count - 1)
trim_ops(r, first, count) ==
    IF r = "new"
    THEN trim_bits(IndexOf(first), IndexOf(first + count))
    ELSE clear_bits_old(IndexOf(first + 1), IndexOf(first + count))

\* what set_bits does once set_mapping_bits succeeded
sequence_ops(r, loc_start, loc_end) ==
    IF r = "new"
    THEN set_bits_sequence(loc_start, loc_end)
    ELSE set_sequence_bits_old(loc_start, loc_end)

(***************************************************************************)
(* SuperpageTracker::acquire.  The body of the search loop after a word c  *)
(* was loaded for search_at (label continue_no_load), up to the next       *)
(* atomic access.  Result: the next position of the call and its locals.   *)
(***************************************************************************)
NoIndex == Index(0, 0)
IdleLoc ==
    [nb |-> 0, at |-> NoIndex, c |-> {}, ls |-> NoIndex, le |-> NoIndex,
     fexp |-> {}, idx |-> 0, todo |-> <<>>, after |-> "none"]

\* where the multi-cell check goes once the cells before idx were found free
AfterMiddle(l, idx) ==
    IF idx < l.le.a
    THEN [l EXCEPT !.idx = idx] @@ [pc |-> "acq_mid"]
    ELSE IF window_bound(0, l.le.b) # zeros
         THEN [l EXCEPT !.idx = idx] @@ [pc |-> "acq_tail"]
         ELSE [l EXCEPT !.idx = idx] @@ [pc |-> "set_first"]

acquire_scan(l, search_at, c) ==
    IF c = ones
    THEN \* completely full cell, skip
         [l EXCEPT !.at = next_array_cell_first_bit(search_at), !.c = c] @@ [pc |-> "acq_load"]
    ELSE
      LET limit == IF search_at.a = search_end.a THEN search_end.b ELSE Bits
          pos == IF search_at.b + l.nb <= limit
                 THEN find_zero_subsequence(c, l.nb, search_at.b, limit)
                 ELSE Bits
          msb_zeros == Min(count_msb_zeros(c), Bits - search_at.b)
          loc_start == Index(search_at.a, Bits - msb_zeros)
          loc_end == IndexOf(superpage_num(loc_start) + l.nb)
      IN IF pos < Bits
         THEN \* one cell sequence: one compare_exchange reserves it
              [l EXCEPT !.at = search_at, !.c = c, !.ls = Index(search_at.a, pos),
                        !.le = Index(search_at.a, pos + l.nb)] @@ [pc |-> "acq_cas"]
         ELSE IF msb_zeros > 0
              THEN IF ~IndexLess(loc_end, search_end)
                   THEN [l EXCEPT !.at = search_at, !.c = c] @@ [pc |-> "oom"]
                   ELSE AfterMiddle([l EXCEPT !.at = search_at, !.c = c, !.fexp = c,
                                              !.ls = loc_start, !.le = loc_end],
                                    loc_start.a + 1)
              ELSE [l EXCEPT !.at = next_array_cell_first_bit(search_at), !.c = c]
                   @@ [pc |-> "acq_load"]

\* the load the search performs at position p, and what follows it up to
\* the next atomic access
acquire_step(table, l, p) ==
    CASE p = "acq_load" ->
            IF ~IndexLess(l.at, search_end)
            THEN l @@ [pc |-> "oom"]
            ELSE acquire_scan(l, l.at, table[l.at.a])
      [] p = "acq_mid" ->
            LET c == table[l.idx]
            IN IF c # zeros
               THEN acquire_scan(l, Index(l.idx, 0), c)
               ELSE AfterMiddle([l EXCEPT !.c = c], l.idx + 1)
      [] p = "acq_tail" ->
            LET c == table[l.le.a]
            IN IF (c \cap window_bound(0, l.le.b)) # zeros
               THEN acquire_scan(l, l.le, c)
               ELSE [l EXCEPT !.c = c] @@ [pc |-> "set_first"]

\* drop the pc field of a scan result
Locals(r) == [f \in DOMAIN IdleLoc |-> r[f]]

(***************************************************************************)
(* Tracker clients: threads calling acquire / release / trim directly, as  *)
(* the parallel test of superpage_tracker.t.cpp does.  Every atomic access *)
(* to a table word is one step.                                            *)
(***************************************************************************)
\* a compare_exchange that overwrites without comparing
compare_exchange_blind(word, expected) == TRUE

\* a compare_exchange that fails whatever the word holds
compare_exchange_never(word, expected) == FALSE

\* compare_exchange_strong on a table word: succeeds iff the word is the expected one
compare_exchange(word, expected) == word = expected

Aborted == \E t \in Threads : pc[t] = "abort"

Goto(t, newpc, l) ==
    /\ pc' = [pc EXCEPT ![t] = IF newpc = "oom" THEN "abort" ELSE newpc]
    /\ loc' = [loc EXCEPT ![t] = IF newpc = "oom" THEN IdleLoc ELSE l]

\* the end of a list of accesses: the call returns, or acquire retries
Finish(t, l, after) ==
    CASE after = "return" ->
            /\ Goto(t, "idle", IdleLoc)
            /\ held' = [held EXCEPT ![t] = @ \cup {<<superpage_num(l.ls), l.nb>>}]
      [] after = "retry" ->
            /\ Goto(t, "acq_load", [l EXCEPT !.at = l.ls, !.todo = <<>>, !.after = "none"])
            /\ UNCHANGED held
      [] after = "released" ->
            /\ Goto(t, "idle", IdleLoc)
            /\ UNCHANGED held

RunOps(t, l, todo, after) ==
    IF todo = <<>>
    THEN Finish(t, l, after)
    ELSE /\ Goto(t, "ops", [l EXCEPT !.todo = todo, !.after = after])
         /\ UNCHANGED held

\* a cleanup that clears the whole first cell of the attempt
Cleanup_whole_cell(t, l, idx) ==
    RunOps(t, l,
           StoreOps("map", l.ls.a + 1, idx, zeros)
           \o <<Op("map", "and_not", l.ls.a, ones)>>,
           "retry")

\* set_mapping_bits failed after the first cell was set: undo, then retry
Cleanup(t, l, idx) ==
    RunOps(t, l,
           StoreOps("map", l.ls.a + 1, idx, zeros)
           \o <<Op("map", "and_not", l.ls.a, window_bound(l.ls.b, Bits))>>,
           "retry")

\* the multi-cell set_mapping_bits once the cells before idx are set
SetAfterMiddle(t, l, idx) ==
    IF idx < l.le.a
    THEN Goto(t, "set_mid", [l EXCEPT !.idx = idx]) /\ UNCHANGED held
    ELSE IF window_bound(0, l.le.b) = zeros
         THEN RunOps(t, l, sequence_ops(rev, l.ls, l.le), "return")
         ELSE Goto(t, "set_tail", [l EXCEPT !.idx = idx]) /\ UNCHANGED held

AcquireCall(t, nb) ==
    /\ ~Aborted
    /\ pc[t] = "idle"
    /\ Cardinality(held[t]) < MaxHeld
    /\ Goto(t, "acq_load", [IdleLoc EXCEPT !.nb = nb, !.at = search_start])
    /\ UNCHANGED <<tracker_vars, held>>

AcquireLoad(t) ==
    /\ ~Aborted
    /\ pc[t] = "acq_load"
    /\ LET r == acquire_step(mapping_table, loc[t], "acq_load") IN Goto(t, r.pc, Locals(r))
    /\ UNCHANGED <<tracker_vars, held>>

AcquireLoadMiddle(t) ==
    /\ ~Aborted
    /\ pc[t] = "acq_mid"
    /\ LET r == acquire_step(mapping_table, loc[t], "acq_mid") IN Goto(t, r.pc, Locals(r))
    /\ UNCHANGED <<tracker_vars, held>>

AcquireLoadTail(t) ==
    /\ ~Aborted
    /\ pc[t] = "acq_tail"
    /\ LET r == acquire_step(mapping_table, loc[t], "acq_tail") IN Goto(t, r.pc, Locals(r))
    /\ UNCHANGED <<tracker_vars, held>>

\* set_mapping_bits, one cell span, then the sequence bits
AcquireCasOneCell(t) ==
    /\ ~Aborted
    /\ pc[t] = "acq_cas"
    /\ LET l == loc[t]
       IN IF compare_exchange(mapping_table[l.ls.a], l.c)
          THEN /\ mapping_table' = [mapping_table EXCEPT
                                       ![l.ls.a] = l.c \cup window_bound(l.ls.b, l.le.b)]
               /\ RunOps(t, l, sequence_ops(rev, l.ls, l.le), "return")
          ELSE /\ UNCHANGED mapping_table
               /\ Goto(t, "acq_load", l)
               /\ UNCHANGED held
    /\ UNCHANGED <<rev, sequence_table>>

\* set_mapping_bits, multicell span: first cell
SetFirst(t) ==
    /\ ~Aborted
    /\ pc[t] = "set_first"
    /\ LET l == loc[t]
       IN IF compare_exchange(mapping_table[l.ls.a], l.fexp)
          THEN /\ mapping_table' = [mapping_table EXCEPT
                                       ![l.ls.a] = l.fexp \cup window_bound(l.ls.b, Bits)]
               /\ SetAfterMiddle(t, l, l.ls.a + 1)
          ELSE /\ UNCHANGED mapping_table
               /\ Goto(t, "acq_load", [l EXCEPT !.at = l.ls])
               /\ UNCHANGED held
    /\ UNCHANGED <<rev, sequence_table>>

\* set_mapping_bits, multicell span: one middle cell
SetMiddle(t) ==
    /\ ~Aborted
    /\ pc[t] = "set_mid"
    /\ LET l == loc[t]
       IN IF compare_exchange(mapping_table[l.idx], zeros)
          THEN /\ mapping_table' = [mapping_table EXCEPT ![l.idx] = ones]
               /\ SetAfterMiddle(t, l, l.idx + 1)
          ELSE /\ UNCHANGED mapping_table
               /\ Cleanup(t, l, l.idx)
    /\ UNCHANGED <<rev, sequence_table>>

\* set_mapping_bits, multicell span: last cell
SetTail(t) ==
    /\ ~Aborted
    /\ pc[t] = "set_tail"
    /\ LET l == loc[t]
       IN IF compare_exchange(mapping_table[l.le.a], l.c)
          THEN /\ mapping_table' = [mapping_table EXCEPT
                                       ![l.le.a] = l.c \cup window_bound(0, l.le.b)]
               /\ RunOps(t, l, sequence_ops(rev, l.ls, l.le), "return")
          ELSE /\ UNCHANGED mapping_table
               /\ Cleanup(t, l, l.le.a)
    /\ UNCHANGED <<rev, sequence_table>>

\* one fetch_or / fetch_and / store of the running call
DoOp(t) ==
    /\ ~Aborted
    /\ pc[t] = "ops"
    /\ LET l == loc[t]
           op == Head(l.todo)
       IN /\ IF op.tbl = "map"
             THEN /\ mapping_table' = TableAfter(mapping_table, op)
                  /\ UNCHANGED sequence_table
             ELSE /\ sequence_table' = TableAfter(sequence_table, op)
                  /\ UNCHANGED mapping_table
          /\ RunOps(t, l, Tail(l.todo), l.after)
    /\ UNCHANGED rev

ReleaseCall(t, r) ==
    /\ ~Aborted
    /\ pc[t] = "idle"
    /\ r \in held[t]
    /\ held' = [held EXCEPT ![t] = @ \ {r}]
    /\ IF release_aborts(rev, r[1], r[2])
       THEN Goto(t, "oom", IdleLoc)
       ELSE Goto(t, "ops", [IdleLoc EXCEPT !.todo = release_ops(rev, r[1], r[2]),
                                             !.after = "released"])
    /\ UNCHANGED tracker_vars

TrimCall(t, r) ==
    /\ ~Aborted
    /\ pc[t] = "idle"
    /\ r \in held[t]
    /\ r[2] > 1
    /\ held' = [held EXCEPT ![t] = (@ \ {r}) \cup {<<r[1], 1>>}]
    /\ Goto(t, "ops", [IdleLoc EXCEPT !.todo = trim_ops(rev, r[1], r[2]),
                                        !.after = "released"])
    /\ UNCHANGED tracker_vars

(***************************************************************************)
(* allocator.h: sizes, thresholds and size classes.                        *)
(***************************************************************************)
PageSize == 2 ^ PageShift
SuperpagePageNB == 2 ^ SuperpagePageShift
SuperpageSize == PageSize * SuperpagePageNB
SmallMedium == PageSize
AvailablePages == SuperpagePageNB - HeaderSpacePages
\* a threshold that leaves the size AvailablePages * PageSize to the medium class
MediumHigh_above == AvailablePages * PageSize + 1
MediumHigh == AvailablePages * PageSize
Pages == 0 .. (SuperpagePageNB - 1)

\* Math::log_2_sup : smallest k with x <= 2^k
log_2_sup(x) == SetMin({k \in 0 .. (PageShift + SuperpagePageShift + 1) : x <= 2 ^ k})
is_power_of_2(x) == x > 0 /\ 2 ^ log_2_sup(x) = x

min_sizeclass_log == log_2_sup(Smallest)
max_sizeclass_log == log_2_sup(SmallMedium)
SizeClasses == 0 .. (max_sizeclass_log - min_sizeclass_log)
\* SizeClass::id
id(size) == log_2_sup(size) - min_sizeclass_log
\* SizeClass::make_info
block_size(sc) == 2 ^ (sc + min_sizeclass_log)
nb_blocks(sc) == PageSize \div block_size(sc)
page_block_size(sc) == 1

\* Ptr::align : round down to a multiple of a
align(p, a) == p - (p % a)

\* a layout whose superpages start one byte after a multiple of their size
superpage_shifted(num) == SuperpageSize * num + 1

\* GasLayout (the space starts at address 0)
superpage(num) == SuperpageSize * num
superpage_num_of(ptr) == ptr \div SuperpageSize
in_local_area(ptr) == superpage(local_area_start) <= ptr /\ ptr < superpage(local_area_end)

(***************************************************************************)
(* Memory of the allocator.  An SPB header lives in the first superpage of *)
(* its block; spb[n].mapped tells whether a header is stored at superpage  *)
(* n.  nullptr is 0, a ThreadLocalHeap pointer is its thread.              *)
(***************************************************************************)
nullptr == 0
\* the elements given to the atomic list under test
Elements == 1 .. ListElements

NewPbh ==
    [type |-> "Reserved", nb_page |-> 0, head |-> 0, sb_sizeclass |-> 0,
     sb_nb_carved |-> 0, sb_nb_unused |-> 0, sb_unused |-> <<>>]

NoSpb ==
    [mapped |-> FALSE, owner |-> nullptr, superpage_nb |-> 0, huge_alloc_pb_index |-> 0,
     stored_size |-> 0, pbh_table |-> [i \in Pages |-> NewPbh]]

\* List cells: <<kind, x, y>>
\*   "A" t sc : root of active_small_page_blocks[sc] of thread t
\*   "a" n i  : ActivePageBlockList element of page block header i of SPB n
\*   "U" n k  : root of exact_size_slots[k - 1] of the unused list of SPB n,
\*              bigger_sizes for k = exact_size_slot_nb + 1
\*   "u" n i  : PageBlockUnusedList element of page block header i of SPB n
\*   "O" t 0  : root of owned_superpage_blocks of thread t
\*   "o" n 0  : SuperpageBlockOwnedList element of SPB n
ARoot(t, sc) == <<"A", t, sc>>
AElem(n, i) == <<"a", n, i>>
URoot(n, k) == <<"U", n, k>>
UElem(n, i) == <<"u", n, i>>
ORoot(t) == <<"O", t, 0>>
OElem(n) == <<"o", n, 0>>
bigger_sizes == exact_size_slot_nb + 1

SpbCells(n) ==
    {AElem(n, i) : i \in Pages} \cup {UElem(n, i) : i \in Pages}
    \cup {URoot(n, k) : k \in 1 .. bigger_sizes} \cup {OElem(n)}
HeapCells(t) == {ARoot(t, sc) : sc \in SizeClasses} \cup {ORoot(t)}
Cells == UNION {SpbCells(n) : n \in LocalSuperpages} \cup UNION {HeapCells(t) : t \in Heaps}

InSpb(cell) == cell[1] \in {"a", "u", "U", "o"}
\* Element::reset
reset(cell) == [prev |-> cell, next |-> cell]

NoPbh == <<-1, -1>>
NoBlock == [ptr |-> -1, size |-> 0]

\* the state the sequential code below works on; r, pb and blk hold the
\* value returned by the last call: a number, a page block header <<n, i>>,
\* a block [ptr, size]; map_r is what VMem::map returns to the call, 0
\* when the OS maps the range.  unmap_later tells that the call is followed
\* up to the tracker release or trim of a destruction only: the ranges
\* <<first superpage, count>> it has still to unmap are kept in pending
Heap ==
    [mt |-> mapping_table, st |-> sequence_table, spb |-> spb, links |-> links,
     inbox |-> inbox, fault |-> fault, foreign |-> foreign, adopters |-> adopters,
     head |-> head, next |-> next, detached |-> detached,
     r |-> -1, pb |-> NoPbh, blk |-> NoBlock, map_r |-> 0,
     unmap_later |-> FALSE, pending |-> <<>>]
\* the same state for a call whose unmap is a later step
HeapReleasing == [Heap EXCEPT !.unmap_later = TRUE]
\* the same state for a call during which the OS refuses to map
HeapUnmappable == [Heap EXCEPT !.map_r = -1]

Ok(h) == h.fault = "none"
\* process death: ASSERT_STD / ASSERT_FAIL ("abort"), access to unmapped or
\* null memory ("segv"), a list walk that never meets its root ("hang"),
\* a wild access inside mapped memory ("corrupt")
Fault(h, why) == IF Ok(h) THEN [h EXCEPT !.fault = why] ELSE h
Return(h, r) == [h EXCEPT !.r = r]
ReturnPbh(h, pb) == [h EXCEPT !.pb = pb]
ReturnBlock(h, blk) == [h EXCEPT !.blk = blk]

\* superpage num is part of a mapped superpage block
IsMapped(h, num) ==
    \E n \in LocalSuperpages :
        /\ h.spb[n].mapped
        /\ n <= num
        /\ num < n + Max(h.spb[n].superpage_nb, 1)
HasSpb(h, n) == n \in LocalSuperpages /\ h.spb[n].mapped
CellOk(h, cell) == InSpb(cell) => HasSpb(h, cell[2])

\* thread t writes page block state of SPB n
Touch(h, t, n) ==
    IF h.spb[n].owner # t THEN [h EXCEPT !.foreign = TRUE] ELSE h
\* thread t writes the links of these cells
TouchCells(h, t, cells) ==
    IF \E c \in cells : c[1] \in {"a", "u", "U"} /\ h.spb[c[2]].owner # t
    THEN [h EXCEPT !.foreign = TRUE]
    ELSE h

(***************************************************************************)
(* intrusive_list.h: List::cross and the operations built on it.           *)
(***************************************************************************)
cross(h, t, left, right) ==
    IF ~Ok(h) THEN h
    ELSE IF ~CellOk(h, left) \/ ~CellOk(h, right) THEN Fault(h, "segv")
    ELSE LET a == h.links[left].next
             b == h.links[right].prev
         IN IF ~CellOk(h, a) \/ ~CellOk(h, b) THEN Fault(h, "segv")
            ELSE [TouchCells(h, t, {a, b, left, right}) EXCEPT
                     !.links = [[[[@ EXCEPT ![a].prev = b]
                                     EXCEPT ![b].next = a]
                                     EXCEPT ![left].next = right]
                                     EXCEPT ![right].prev = left]]

extract(h, t, link) == cross(h, t, link, link)
unlink(h, t, e) == extract(h, t, e)
insert_after(h, t, to_insert, e) == cross(h, t, e, to_insert)
insert_before(h, t, to_insert, e) == cross(h, t, to_insert, e)
push_front(h, t, root, e) == insert_after(h, t, e, root)
push_back(h, t, root, e) == insert_before(h, t, e, root)
empty(h, root) == h.links[root].next = root
front(h, root) == h.links[root].next
pop_front(h, t, root) == IF ~Ok(h) THEN h ELSE extract(h, t, h.links[root].next)

(***************************************************************************)
(* The tracker calls as the allocator makes them.  In the allocator        *)
(* specifications a call is one step; its interleavings are those of       *)
(* TrackerSpec.                                                            *)
(***************************************************************************)
RECURSIVE ApplyOps(_, _)
ApplyOps(h, ops) ==
    IF ops = <<>> THEN h
    ELSE ApplyOps(IF Head(ops).tbl = "map"
                  THEN [h EXCEPT !.mt = TableAfter(@, Head(ops))]
                  ELSE [h EXCEPT !.st = TableAfter(@, Head(ops))],
                  Tail(ops))

\* the accesses of a set_mapping_bits that succeeds
mapping_ops(loc_start, loc_end) ==
    IF loc_start.a = loc_end.a
    THEN <<Op("map", "or", loc_start.a, window_bound(loc_start.b, loc_end.b))>>
    ELSE <<Op("map", "or", loc_start.a, window_bound(loc_start.b, Bits))>>
         \o StoreOps("map", loc_start.a + 1, loc_end.a, ones)
         \o (IF window_bound(0, loc_end.b) # zeros
             THEN <<Op("map", "or", loc_end.a, window_bound(0, loc_end.b))>>
             ELSE <<>>)

\* the search of acquire run to its end without interference
RECURSIVE acquire_run(_, _, _)
RECURSIVE acquire_next(_, _)
acquire_run(table, l, p) ==
    IF p \in {"acq_cas", "set_first", "oom"}
    THEN l @@ [pc |-> p]
    ELSE acquire_next(table, acquire_step(table, l, p))
acquire_next(table, r) == acquire_run(table, Locals(r), r.pc)

\* acquire (superpage_nb), found == where the search ended: the first
\* superpage number is returned
acquire_found(h, found) ==
    IF found.pc = "oom"
    THEN Return(Fault(h, "abort"), -1)
    ELSE Return(ApplyOps(h, mapping_ops(found.ls, found.le)
                            \o sequence_ops(rev, found.ls, found.le)),
                superpage_num(found.ls))

acquire(h, nb) ==
    IF ~Ok(h) THEN h
    ELSE acquire_found(h, acquire_run(h.mt, [IdleLoc EXCEPT !.nb = nb, !.at = search_start],
                                      "acq_load"))

release(h, num, nb) ==
    IF ~Ok(h) THEN h
    ELSE IF release_aborts(rev, num, nb) THEN Fault(h, "abort")
    ELSE ApplyOps(h, release_ops(rev, num, nb))

trim(h, num, nb) ==
    IF ~Ok(h) THEN h
    ELSE IF rev = "old" /\ (nb <= 1 \/ release_aborts(rev, num + 1, nb - 1))
    THEN Fault(h, "abort")
    ELSE ApplyOps(h, trim_ops(rev, num, nb))

(***************************************************************************)
(* get_sequence_start_num (get_block_start_num in the old revision): walk  *)
(* back to the previous zero sequence bit.  -1 when the walk leaves the    *)
(* table: ASSERT_STD aborts in the old revision, the new one reads before  *)
(* the array.                                                              *)
(***************************************************************************)
RECURSIVE sequence_start_from(_, _)
sequence_start_from(table, l) ==
    IF find_previous_zero(table[l.a], l.b) # Bits
    THEN superpage_num(Index(l.a, find_previous_zero(table[l.a], l.b)))
    ELSE IF l.a = 0
         THEN -1
         ELSE sequence_start_from(table, Index(l.a - 1, Bits - 1))

get_sequence_start_num(n) == sequence_start_from(sequence_table, IndexOf(n))

(***************************************************************************)
(* PageBlockHeader / QuickList (the unused list of an SPB).                *)
(***************************************************************************)
\* a format_pbh that formats the first header of [from, to[ only
format_pbh_first(h, t, n, from, to, type) ==
    IF ~Ok(h) \/ from >= to THEN h
    ELSE Touch([h EXCEPT !.spb[n].pbh_table[from] =
                   [@ EXCEPT !.type = type, !.nb_page = to - from, !.head = from]],
               t, n)

\* format_pbh (from, to, type): format every header of [from, to[
format_pbh(h, t, n, from, to, type) ==
    IF ~Ok(h) \/ from >= to THEN h
    ELSE Touch([h EXCEPT !.spb[n].pbh_table =
                   [i \in Pages |->
                       IF from <= i /\ i < to
                       THEN [@[i] EXCEPT !.type = type, !.nb_page = to - from, !.head = from]
                       ELSE @[i]]],
               t, n)

MaxWalk == Cardinality(Cells)

\* walk of bigger_sizes: the first element from cur on whose size () is at
\* least sz, the root when there is none
RECURSIVE find_bigger(_, _, _, _, _)
find_bigger(h, root, cur, sz, fuel) ==
    IF cur = root THEN root
    ELSE IF fuel = 0 THEN <<"hang", 0, 0>>
    ELSE IF ~CellOk(h, cur) THEN <<"segv", 0, 0>>
    ELSE IF cur[1] # "u" THEN <<"corrupt", 0, 0>>
    ELSE IF h.spb[cur[2]].pbh_table[cur[3]].nb_page >= sz THEN cur
    ELSE find_bigger(h, root, h.links[cur].next, sz, fuel - 1)

IsFaultCell(c) == c[1] \in {"hang", "segv", "corrupt"}

\* QuickList::insert, the sorted insertion before element at of bigger_sizes
insert_sorted(h, t, n, i, at) ==
    IF IsFaultCell(at) THEN Fault(h, at[1])
    ELSE IF at = URoot(n, bigger_sizes) THEN push_back(h, t, at, UElem(n, i))
    ELSE insert_before(h, t, UElem(n, i), at)

\* QuickList::insert once stored_size was updated
insert_sized(h, t, n, i, sz) ==
    IF sz = 0 THEN Fault(h, "corrupt")
    ELSE IF sz <= exact_size_slot_nb
    THEN push_front(h, t, URoot(n, sz), UElem(n, i))
    ELSE insert_sorted(h, t, n, i,
                       find_bigger(h, URoot(n, bigger_sizes),
                                   h.links[URoot(n, bigger_sizes)].next, sz, MaxWalk))

\* QuickList::insert
insert(h, t, n, i) ==
    IF ~Ok(h) THEN h
    ELSE insert_sized(Touch([h EXCEPT !.spb[n].stored_size =
                                @ + h.spb[n].pbh_table[i].nb_page], t, n),
                      t, n, i, h.spb[n].pbh_table[i].nb_page)

\* QuickList::take, the front e of exact_size_slots[k - 1] is taken
take_front(h, t, n, k, e) ==
    IF e[1] # "u" \/ e[2] # n THEN Return(Fault(h, "corrupt"), -1)
    ELSE Return(Touch([pop_front(h, t, URoot(n, k)) EXCEPT !.spb[n].stored_size = @ - k],
                      t, n),
                e[3])

\* QuickList::take, the search in bigger_sizes ended at element at
take_bigger(h, t, n, at) ==
    IF IsFaultCell(at) THEN Return(Fault(h, at[1]), -1)
    ELSE IF at = URoot(n, bigger_sizes) THEN Return(h, -1)
    ELSE IF at[2] # n THEN Return(Fault(h, "corrupt"), -1)
    ELSE Return(Touch([unlink(h, t, at) EXCEPT !.spb[n].stored_size =
                          @ - h.spb[n].pbh_table[at[3]].nb_page], t, n),
                at[3])

\* QuickList::take: the index of the header taken is returned, or -1
take(h, t, n, min_sz) ==
    IF ~Ok(h) THEN Return(h, -1)
    ELSE LET slots == {k \in min_sz .. exact_size_slot_nb : ~empty(h, URoot(n, k))}
         IN IF slots # {}
            THEN take_front(h, t, n, SetMin(slots), front(h, URoot(n, SetMin(slots))))
            ELSE take_bigger(h, t, n,
                             find_bigger(h, URoot(n, bigger_sizes),
                                         h.links[URoot(n, bigger_sizes)].next, min_sz,
                                         MaxWalk))

\* QuickList::remove
remove(h, t, n, i) ==
    IF ~Ok(h) THEN h
    ELSE unlink(Touch([h EXCEPT !.spb[n].stored_size = @ - h.spb[n].pbh_table[i].nb_page],
                      t, n),
                t, UElem(n, i))

(***************************************************************************)
(* SuperpageBlock.                                                         *)
(***************************************************************************)
\* SuperpageBlock::available_pb_index
available_pb_index(s) == Min(s.huge_alloc_pb_index, SuperpagePageNB)

\* SuperpageBlock::all_page_blocks_unused
all_page_blocks_unused(s) == s.stored_size = available_pb_index(s) - HeaderSpacePages

\* SuperpageBlock::completely_unused
completely_unused(s) == s.superpage_nb = 1 /\ all_page_blocks_unused(s)

\* SuperpageBlock::in_huge_alloc, for the SPB at superpage n
in_huge_alloc(s, n, p) == superpage(n) + s.huge_alloc_pb_index * PageSize <= p

\* SuperpageBlock::huge_alloc_memory: the block [ptr, size]
huge_alloc_memory(s, n) ==
    [ptr |-> superpage(n) + s.huge_alloc_pb_index * PageSize,
     size |-> (s.superpage_nb * SuperpagePageNB - s.huge_alloc_pb_index) * PageSize]

\* SuperpageBlock::page_block_memory of header i
page_block_memory(s, n, i) ==
    [ptr |-> superpage(n) + i * PageSize, size |-> s.pbh_table[i].nb_page * PageSize]

\* the memory of a new SPB at superpage n, as mmap returns it, with the
\* members the constructor initialises
FreshSpb(h, t, n, superpage_nb, huge_alloc_page_nb) ==
    [h EXCEPT !.spb[n] = [NoSpb EXCEPT !.mapped = TRUE, !.owner = t,
                                       !.superpage_nb = superpage_nb,
                                       !.huge_alloc_pb_index =
                                           superpage_nb * SuperpagePageNB - huge_alloc_page_nb],
              !.links = [c \in Cells |-> IF InSpb(c) /\ c[2] = n THEN reset(c) ELSE @[c]],
              !.adopters[n] = {}]

\* SuperpageBlock::SuperpageBlock, the body of the constructor
SetupPageBlocks(h, t, n, max_available_pb) ==
    insert(format_pbh(format_pbh(format_pbh(h, t, n, 0, HeaderSpacePages, "Reserved"),
                                 t, n, HeaderSpacePages, max_available_pb, "Unused"),
                      t, n, max_available_pb, SuperpagePageNB, "Huge"),
           t, n, HeaderSpacePages)

\* SuperpageBlock::SuperpageBlock, placed at superpage n by thread t
SuperpageBlock(h, t, n, superpage_nb, huge_alloc_page_nb) ==
    IF ~Ok(h) THEN h
    ELSE SetupPageBlocks(FreshSpb(h, t, n, superpage_nb, huge_alloc_page_nb), t, n,
                         Min(superpage_nb * SuperpagePageNB - huge_alloc_page_nb,
                             SuperpagePageNB))

\* unused.remove (*prev) / unused.remove (*next) when the neighbour is merged
remove_merged(h, t, n, merged, i) == IF merged THEN remove(h, t, n, i) ELSE h

\* a free_page_block that merges with neither neighbour
free_page_block_unmerged(h, t, n, i) ==
    IF ~Ok(h) THEN h
    ELSE insert(format_pbh(h, t, n, i, i + h.spb[n].pbh_table[i].nb_page, "Unused"), t, n, i)

\* SuperpageBlock::free_page_block of header i
free_page_block(h, t, n, i) ==
    IF ~Ok(h) THEN h
    ELSE LET tbl == h.spb[n].pbh_table
             end0 == i + tbl[i].nb_page
             merge_prev == i > 0 /\ tbl[i - 1].type = "Unused"
             start == IF merge_prev THEN tbl[i - 1].head ELSE i
             merge_next == end0 < SuperpagePageNB /\ tbl[end0].type = "Unused"
             end == IF merge_next THEN end0 + tbl[end0].nb_page ELSE end0
         IN insert(format_pbh(remove_merged(remove_merged(h, t, n, merge_prev, start),
                                            t, n, merge_next, end0),
                              t, n, start, end, "Unused"),
                   t, n, start)

\* superpage_nb = v
set_superpage_nb(h, n, v) == IF Ok(h) THEN [h EXCEPT !.spb[n].superpage_nb = v] ELSE h

\* SuperpageBlock::destroy_huge_alloc
destroy_huge_alloc(h, t, n) ==
    IF ~Ok(h) THEN h
    ELSE set_superpage_nb(IF h.spb[n].huge_alloc_pb_index < SuperpagePageNB
                          THEN free_page_block(h, t, n, h.spb[n].huge_alloc_pb_index)
                          ELSE h,
                          n, 1)

\* SuperpageBlock::allocate_page_block once unused.take returned: the header
\* taken is returned, or -1
allocate_page_block_taken(h, t, n, page_nb, type) ==
    IF ~Ok(h) \/ h.r = -1 THEN h
    ELSE LET pbh == h.r
             overflow_page_nb == h.spb[n].pbh_table[pbh].nb_page - page_nb
         IN IF overflow_page_nb < 0 \/ pbh + page_nb + overflow_page_nb > SuperpagePageNB
            THEN Return(Fault(h, "corrupt"), -1)
            ELSE format_pbh(IF overflow_page_nb > 0
                            THEN insert(format_pbh(h, t, n, pbh + page_nb,
                                                   pbh + page_nb + overflow_page_nb,
                                                   "Unused"),
                                        t, n, pbh + page_nb)
                            ELSE h,
                            t, n, pbh, pbh + page_nb, type)

\* SuperpageBlock::allocate_page_block
allocate_page_block(h, t, n, page_nb, type) ==
    allocate_page_block_taken(take(h, t, n, page_nb), t, n, page_nb, type)

(***************************************************************************)
(* MainHeap.                                                               *)
(***************************************************************************)
\* a create_superpage_block that does not check what VMem::map returned:
\* the constructor writes the header into memory that is not mapped
MainHeap_create_acquired_unchecked(h, t, superpage_nb, huge_alloc_page_nb) ==
    IF ~Ok(h) THEN h
    ELSE IF h.map_r # 0 THEN Fault(h, "segv")
    ELSE SuperpageBlock(h, t, h.r, superpage_nb, huge_alloc_page_nb)

\* MainHeap::create_superpage_block once acquire returned the superpage h.r:
\* VMem::map_checked (ASSERT_OPT (map_r == 0)), then the constructor
MainHeap_create_acquired(h, t, superpage_nb, huge_alloc_page_nb) ==
    IF ~Ok(h) THEN h
    ELSE IF h.map_r # 0 THEN Fault(h, "abort")
    ELSE SuperpageBlock(h, t, h.r, superpage_nb, huge_alloc_page_nb)

\* a create_superpage_block that counts no page for the header
MainHeap_create_superpage_block_headerless(h, t, huge_alloc_size) ==
    MainHeap_create_acquired(
        acquire(h, divide_up(divide_up(huge_alloc_size, PageSize), SuperpagePageNB)),
        t,
        divide_up(divide_up(huge_alloc_size, PageSize), SuperpagePageNB),
        divide_up(huge_alloc_size, PageSize))

\* MainHeap::create_superpage_block: the superpage of the SPB is returned
MainHeap_create_superpage_block(h, t, huge_alloc_size) ==
    MainHeap_create_acquired(
        acquire(h, divide_up(divide_up(huge_alloc_size, PageSize) + HeaderSpacePages,
                             SuperpagePageNB)),
        t,
        divide_up(divide_up(huge_alloc_size, PageSize) + HeaderSpacePages, SuperpagePageNB),
        divide_up(huge_alloc_size, PageSize))

\* the memory of SPB n is unmapped: its header and its cells are gone
Unmapped(h, n) ==
    IF ~Ok(h) THEN h
    ELSE [h EXCEPT !.spb[n] = NoSpb,
                   !.links = [c \in Cells |-> IF InSpb(c) /\ c[2] = n THEN reset(c) ELSE @[c]],
                   !.adopters[n] = {}]

\* VMem::unmap_checked of count superpages from superpage first on: the SPB
\* headers stored in the range are gone, whoever wrote them
RECURSIVE unmap_checked(_, _, _)
unmap_checked(h, first, count) ==
    IF ~Ok(h) \/ count = 0 THEN h
    ELSE unmap_checked(IF HasSpb(h, first) THEN Unmapped(h, first) ELSE h,
                       first + 1, count - 1)

\* the unmap_checked calls that a destruction left pending
RECURSIVE unmap_pending(_, _)
unmap_pending(h, ranges) ==
    IF ranges = <<>> THEN h
    ELSE unmap_pending(unmap_checked(h, Head(ranges)[1], Head(ranges)[2]), Tail(ranges))

\* the range <<first, count>> was released in the tracker and is to be unmapped
Released(h, first, count) ==
    IF ~Ok(h) THEN h ELSE [h EXCEPT !.pending = Append(@, <<first, count>>)]

\* MainHeap::destroy_superpage_block: release in the tracker, then unmap
MainHeap_destroy_superpage_block(h, t, n) ==
    IF ~Ok(h) THEN h
    ELSE IF h.unmap_later
    THEN Released(release(h, n, h.spb[n].superpage_nb), n, h.spb[n].superpage_nb)
    ELSE Unmapped(release(h, n, h.spb[n].superpage_nb), n)

\* MainHeap::destroy_superpage_huge_alloc: trim in the tracker, unmap the
\* trailing superpages, update the header (which only the owner reads)
destroy_superpage_huge_alloc(h, t, n) ==
    IF ~Ok(h) THEN h
    ELSE IF ~(h.spb[n].superpage_nb > 1) THEN Fault(h, "abort")
    ELSE IF h.unmap_later
    THEN destroy_huge_alloc(Released(trim(h, n, h.spb[n].superpage_nb),
                                     n + 1, h.spb[n].superpage_nb - 1), t, n)
    ELSE destroy_huge_alloc(trim(h, n, h.spb[n].superpage_nb), t, n)

\* MainHeap::containing_superpage_block: the superpage of the SPB, -1 when
\* the lookup aborts
containing_superpage_block(h, ptr) ==
    sequence_start_from(h.st, IndexOf(superpage_num_of(ptr)))

(***************************************************************************)
(* ThreadLocalHeap (thread t).                                             *)
(***************************************************************************)
\* owned_superpage_blocks.push_back (*spb) of the SPB just created
own_created(h, t) ==
    IF ~Ok(h) THEN h ELSE push_back(h, t, ORoot(t), OElem(h.r))

\* ThreadLocalHeap::create_superpage_block: the superpage of the SPB is returned
create_superpage_block(h, t, huge_alloc_size) ==
    own_created(MainHeap_create_superpage_block(h, t, huge_alloc_size), t)

\* ThreadLocalHeap::destroy_superpage_block
destroy_superpage_block(h, t, n) ==
    IF ~Ok(h) THEN h
    ELSE MainHeap_destroy_superpage_block(unlink(Touch(h, t, n), t, OElem(n)), t, n)

\* the loop of create_page_block over owned_superpage_blocks, from cell cur
\* on: the header <<n, i>> found is returned, or NoPbh
RECURSIVE first_fit(_, _, _, _, _, _)
RECURSIVE first_fit_tried(_, _, _, _, _, _)
first_fit(h, t, cur, nb_page, type, fuel) ==
    IF cur = ORoot(t) THEN ReturnPbh(h, NoPbh)
    ELSE IF fuel = 0 THEN ReturnPbh(Fault(h, "hang"), NoPbh)
    ELSE IF ~CellOk(h, cur) THEN ReturnPbh(Fault(h, "segv"), NoPbh)
    ELSE IF cur[1] # "o" THEN ReturnPbh(Fault(h, "corrupt"), NoPbh)
    ELSE first_fit_tried(allocate_page_block(h, t, cur[2], nb_page, type),
                         t, cur, nb_page, type, fuel)
\* the turn of the loop once allocate_page_block returned
first_fit_tried(h, t, cur, nb_page, type, fuel) ==
    IF ~Ok(h) THEN ReturnPbh(h, NoPbh)
    ELSE IF h.r # -1 THEN ReturnPbh(h, <<cur[2], h.r>>)
    ELSE first_fit(h, t, h.links[cur].next, nb_page, type, fuel - 1)

\* create_page_block: the header taken in the new SPB n
create_page_block_taken(h, n) ==
    IF ~Ok(h) THEN ReturnPbh(h, NoPbh)
    ELSE IF h.r = -1 THEN ReturnPbh(Fault(h, "segv"), NoPbh)
    ELSE ReturnPbh(h, <<n, h.r>>)

\* create_page_block: no owned SPB had room, a new SPB was created at h.r
create_page_block_new(h, t, nb_page, type) ==
    IF ~Ok(h) THEN ReturnPbh(h, NoPbh)
    ELSE create_page_block_taken(allocate_page_block(h, t, h.r, nb_page, type), h.r)

\* create_page_block once the loop over the owned SPBs ended
create_page_block_fit(h, t, nb_page, type) ==
    IF ~Ok(h) \/ h.pb # NoPbh THEN h
    ELSE create_page_block_new(create_superpage_block(h, t, 0), t, nb_page, type)

\* ThreadLocalHeap::create_page_block: the header <<n, i>> is returned
create_page_block(h, t, nb_page, type) ==
    create_page_block_fit(first_fit(h, t, h.links[ORoot(t)].next, nb_page, type, MaxWalk),
                          t, nb_page, type)

\* destroy_page_block once the page block is freed
destroy_if_unused(h, t, n) ==
    IF Ok(h) /\ completely_unused(h.spb[n])
    THEN destroy_superpage_block(h, t, n)
    ELSE h

\* ThreadLocalHeap::destroy_page_block
destroy_page_block(h, t, n, i) == destroy_if_unused(free_page_block(h, t, n, i), t, n)

\* PageBlockHeader::available_small_blocks
available_small_blocks(pbh, sc) == pbh.sb_nb_unused + (nb_blocks(sc) - pbh.sb_nb_carved)

\* PageBlockHeader::configure_small_blocks
configure_small_blocks(pbh, sc) ==
    [pbh EXCEPT !.sb_sizeclass = sc, !.sb_nb_carved = 0, !.sb_nb_unused = 0,
                !.sb_unused = <<>>]

\* PageBlockHeader::take_small_block of header i of SPB n: [pbh, p]
take_small_block(pbh, n, i, sc) ==
    IF pbh.sb_unused # <<>>
    THEN [pbh |-> [pbh EXCEPT !.sb_unused = Tail(@), !.sb_nb_unused = @ - 1],
          p |-> Head(pbh.sb_unused)]
    ELSE [pbh |-> [pbh EXCEPT !.sb_nb_carved = @ + 1],
          p |-> superpage(n) + i * PageSize + block_size(sc) * pbh.sb_nb_carved]

\* PageBlockHeader::put_small_block
put_small_block(pbh, p, sc) ==
    [pbh EXCEPT !.sb_unused = <<align(p, block_size(sc))>> \o @, !.sb_nb_unused = @ + 1]

\* allocate_small_block: the page block just created is configured and
\* becomes the front of the active list
activate(h, t, sc) ==
    IF ~Ok(h) THEN h
    ELSE push_front([h EXCEPT !.spb[h.pb[1]].pbh_table[h.pb[2]] =
                                  configure_small_blocks(@, sc)],
                    t, ARoot(t, sc), AElem(h.pb[1], h.pb[2]))

\* allocate_small_block: the block tk.p was taken from header i of SPB n
allocate_small_block_take(h, t, sc, n, i, tk) ==
    ReturnBlock(IF available_small_blocks(tk.pbh, sc) = 0
                THEN pop_front(Touch([h EXCEPT !.spb[n].pbh_table[i] = tk.pbh], t, n),
                               t, ARoot(t, sc))
                ELSE Touch([h EXCEPT !.spb[n].pbh_table[i] = tk.pbh], t, n),
                [ptr |-> tk.p, size |-> block_size(sc)])

\* allocate_small_block: the active list has a front e
allocate_small_block_front(h, t, sc, e) ==
    IF ~Ok(h) THEN ReturnBlock(h, NoBlock)
    ELSE IF ~CellOk(h, e) THEN ReturnBlock(Fault(h, "segv"), NoBlock)
    ELSE IF e[1] # "a" THEN ReturnBlock(Fault(h, "corrupt"), NoBlock)
    ELSE allocate_small_block_take(h, t, sc, e[2], e[3],
                                   take_small_block(h.spb[e[2]].pbh_table[e[3]],
                                                    e[2], e[3], sc))

\* allocate_small_block once the active list is not empty
allocate_small_block_active(h, t, sc) ==
    IF ~Ok(h) THEN ReturnBlock(h, NoBlock)
    ELSE allocate_small_block_front(h, t, sc, front(h, ARoot(t, sc)))

\* allocate_small_block for size class sc
allocate_small_block_sc(h, t, sc) ==
    allocate_small_block_active(
        IF ~empty(h, ARoot(t, sc)) THEN h
        ELSE activate(create_page_block(h, t, page_block_size(sc), "Small"), t, sc),
        t, sc)

\* ThreadLocalHeap::allocate_small_block: the block is returned
allocate_small_block(h, t, size) == allocate_small_block_sc(h, t, id(Max(size, Smallest)))

\* destroy_small_block once the block is put back in header i of sizeclass sc
destroy_small_block_put(h, t, n, i, sc) ==
    IF available_small_blocks(h.spb[n].pbh_table[i], sc) = nb_blocks(sc)
    THEN destroy_page_block(unlink(h, t, AElem(n, i)), t, n, i)
    ELSE IF available_small_blocks(h.spb[n].pbh_table[i], sc) = 1
    THEN push_front(h, t, ARoot(t, sc), AElem(n, i))
    ELSE h

\* ThreadLocalHeap::destroy_small_block
destroy_small_block(h, t, ptr, n, i) ==
    IF ~Ok(h) THEN h
    ELSE destroy_small_block_put(
             Touch([h EXCEPT !.spb[n].pbh_table[i] =
                       put_small_block(@, ptr, h.spb[n].pbh_table[i].sb_sizeclass)], t, n),
             t, n, i, h.spb[n].pbh_table[i].sb_sizeclass)

\* thread_local_deallocate of a pointer below the huge allocation, in page
\* pb_index
deallocate_page_block(h, t, ptr, n, pb_index) ==
    IF pb_index \notin Pages THEN Fault(h, "corrupt")
    ELSE IF h.spb[n].pbh_table[h.spb[n].pbh_table[pb_index].head].type = "Small"
    THEN destroy_small_block(h, t, ptr, n, h.spb[n].pbh_table[pb_index].head)
    ELSE IF h.spb[n].pbh_table[h.spb[n].pbh_table[pb_index].head].type = "Medium"
    THEN destroy_page_block(h, t, n, h.spb[n].pbh_table[pb_index].head)
    ELSE Fault(h, "abort")

\* ThreadLocalHeap::thread_local_deallocate
thread_local_deallocate(h, t, ptr, n) ==
    IF ~Ok(h) THEN h
    ELSE IF ~HasSpb(h, n) THEN Fault(h, "segv")
    ELSE IF in_huge_alloc(h.spb[n], n, ptr)
    THEN IF all_page_blocks_unused(h.spb[n])
         THEN destroy_superpage_block(h, t, n)
         ELSE destroy_superpage_huge_alloc(h, t, n)
    ELSE deallocate_page_block(h, t, ptr, n, (ptr - superpage(n)) \div PageSize)

\* the loop of process_thread_remote_frees over the blocks taken
RECURSIVE free_all(_, _, _)
free_all(h, t, unused_blocks) ==
    IF ~Ok(h) \/ unused_blocks = <<>> THEN h
    ELSE IF ~IsMapped(h, superpage_num_of(Head(unused_blocks).ptr))
    THEN Fault(h, "segv")
    ELSE free_all(thread_local_deallocate(h, t, Head(unused_blocks).ptr,
                                          Head(unused_blocks).spb),
                  t, Tail(unused_blocks))

\* a drain whose take_all leaves the blocks in remote_freed_blocks
process_thread_remote_frees_kept(h, t) ==
    IF ~Ok(h) THEN h
    ELSE free_all(h, t, h.inbox[t])

\* ThreadLocalHeap::process_thread_remote_frees
process_thread_remote_frees(h, t) ==
    IF ~Ok(h) THEN h
    ELSE free_all([h EXCEPT !.inbox[t] = <<>>], t, h.inbox[t])

\* allocate, medium size: the memory of the page block created
medium_memory(h) ==
    IF ~Ok(h) THEN ReturnBlock(h, NoBlock)
    ELSE ReturnBlock(h, page_block_memory(h.spb[h.pb[1]], h.pb[1], h.pb[2]))

\* allocate, huge size: the huge allocation of the SPB created
huge_memory(h) ==
    IF ~Ok(h) THEN ReturnBlock(h, NoBlock)
    ELSE ReturnBlock(h, huge_alloc_memory(h.spb[h.r], h.r))

\* allocate that rounds the page count of a medium block down
allocate_sized_floor(h, t, size) ==
    IF size < SmallMedium THEN allocate_small_block(h, t, size)
    ELSE IF size < MediumHigh
    THEN medium_memory(create_page_block(h, t, size \div PageSize, "Medium"))
    ELSE huge_memory(create_superpage_block(h, t, size))

\* allocate with size = max (size, align)
allocate_sized(h, t, size) ==
    IF size < SmallMedium THEN allocate_small_block(h, t, size)
    ELSE IF size < MediumHigh
    THEN medium_memory(create_page_block(h, t, divide_up(size, PageSize), "Medium"))
    ELSE huge_memory(create_superpage_block(h, t, size))

\* allocate that does not raise the size to the alignment
allocate_drained_unaligned(h, t, size0, align0) ==
    IF ~Ok(h) THEN ReturnBlock(h, NoBlock)
    ELSE IF ~(align0 <= PageSize) \/ ~is_power_of_2(align0)
    THEN ReturnBlock(Fault(h, "abort"), NoBlock)
    ELSE allocate_sized(h, t, size0)

\* allocate once the remote frees are processed
allocate_drained(h, t, size0, align0) ==
    IF ~Ok(h) THEN ReturnBlock(h, NoBlock)
    ELSE IF ~(align0 <= PageSize) \/ ~is_power_of_2(align0)
    THEN ReturnBlock(Fault(h, "abort"), NoBlock)
    ELSE allocate_sized(h, t, Max(size0, align0))

\* ThreadLocalHeap::allocate: the block is returned
allocate(h, t, size0, align0) ==
    allocate_drained(process_thread_remote_frees(h, t), t, size0, align0)

\* ThreadLocalHeap::deallocate after a successful adopt: the SPB joins the
\* owned list and its Small page blocks the active lists (from header i on)
RECURSIVE adopt_page_blocks(_, _, _, _, _)
adopt_page_blocks(h, t, n, i, fuel) ==
    IF ~Ok(h) \/ i >= SuperpagePageNB THEN h
    ELSE IF fuel = 0 THEN Fault(h, "hang")
    ELSE adopt_page_blocks(IF h.spb[n].pbh_table[i].type = "Small"
                           THEN push_back(h, t, ARoot(t, h.spb[n].pbh_table[i].sb_sizeclass),
                                          AElem(n, i))
                           ELSE h,
                           t, n, i + h.spb[n].pbh_table[i].nb_page, fuel - 1)

\* ThreadLocalHeap::~ThreadLocalHeap: the Small page blocks of a disowned
\* SPB leave the active lists (from header i on)
RECURSIVE unlink_page_blocks(_, _, _, _, _)
unlink_page_blocks(h, t, n, i, fuel) ==
    IF ~Ok(h) \/ i >= SuperpagePageNB THEN h
    ELSE IF fuel = 0 THEN Fault(h, "hang")
    ELSE unlink_page_blocks(IF h.spb[n].pbh_table[i].type = "Small"
                            THEN unlink(h, t, AElem(n, i))
                            ELSE h,
                            t, n, i + h.spb[n].pbh_table[i].nb_page, fuel - 1)

\* SuperpageBlock::adopt: the compare_exchange succeeds iff the owner read is null
adopt_blind(owner) == TRUE
adopt(owner) == owner = nullptr

\* deallocate, owner == nullptr and adopt returned true
deallocate_adopted(h, t, ptr, n) ==
    thread_local_deallocate(
        adopt_page_blocks(push_back([h EXCEPT !.spb[n].owner = t, !.adopters[n] = @ \cup {t}],
                                    t, ORoot(t), OElem(n)),
                          t, n, 0, SuperpagePageNB),
        t, ptr, n)

\* deallocate, remote branch: an UnusedBlock is built in the block and
\* pushed on owner->remote_freed_blocks
deallocate_remote(h, t, ptr, n, owner) ==
    IF ~Ok(h) THEN h
    ELSE IF owner = nullptr \/ ~IsMapped(h, superpage_num_of(ptr)) THEN Fault(h, "segv")
    ELSE [h EXCEPT !.inbox[owner] = <<[ptr |-> ptr, spb |-> n]>> \o @]

\* deallocate once the SPB n of ptr is looked up
deallocate_in(h, t, ptr, n) ==
    IF n = -1 THEN Fault(h, "abort")
    ELSE IF ~HasSpb(h, n) THEN Fault(h, "segv")
    ELSE IF adopt(h.spb[n].owner) THEN deallocate_adopted(h, t, ptr, n)
    ELSE IF h.spb[n].owner = t THEN thread_local_deallocate(h, t, ptr, n)
    ELSE deallocate_remote(h, t, ptr, n, h.spb[n].owner)

\* deallocate once the remote frees are processed
deallocate_drained(h, t, ptr) ==
    IF ~Ok(h) \/ ~in_local_area(ptr) THEN h
    ELSE deallocate_in(h, t, ptr, containing_superpage_block(h, ptr))

\* ThreadLocalHeap::deallocate with no other thread running
deallocate(h, t, ptr) == deallocate_drained(process_thread_remote_frees(h, t), t, ptr)

(***************************************************************************)
(* Threads using the allocator.  A tracker call is one step here; the      *)
(* owner load, the adopt and the remote push of deallocate, and the        *)
(* disowning of each SPB at thread exit, are steps of their own.           *)
(***************************************************************************)
Install(h) ==
    /\ mapping_table' = h.mt
    /\ sequence_table' = h.st
    /\ spb' = h.spb
    /\ links' = h.links
    /\ inbox' = h.inbox
    /\ fault' = h.fault
    /\ foreign' = h.foreign
    /\ adopters' = h.adopters
    /\ head' = h.head
    /\ next' = h.next
    /\ detached' = h.detached

NoLoc == [ptr |-> -1, spb |-> -1, owner |-> nullptr, unmap |-> <<>>, expected |-> nullptr]

Step(t, newpc, l) ==
    /\ apc' = [apc EXCEPT ![t] = IF fault' = "none" THEN newpc ELSE @]
    /\ aloc' = [aloc EXCEPT ![t] = IF fault' = "none" THEN l ELSE @]

\* the block returned by allocate is handed to the program
AllocateReturn(t, h) ==
    /\ Install(h)
    /\ live' = IF Ok(h)
               THEN live (+) SetToBag({[ptr |-> h.blk.ptr, size |-> h.blk.size, by |-> t]})
               ELSE live

AllocateCall(t, size, align0) ==
    /\ fault = "none"
    /\ apc[t] = "idle"
    /\ nb_allocate' = nb_allocate + 1
    /\ AllocateReturn(t, allocate(Heap, t, size, align0))
    /\ UNCHANGED <<rev, apc, aloc, client_vars>>

\* an allocate call during which the OS refuses to map memory
AllocateUnmappable(t, size, align0) ==
    /\ fault = "none"
    /\ apc[t] = "idle"
    /\ nb_allocate' = nb_allocate + 1
    /\ AllocateReturn(t, allocate(HeapUnmappable, t, size, align0))
    /\ UNCHANGED <<rev, apc, aloc, client_vars>>

\* deallocate: the lookup of the containing SPB once the remote frees are
\* processed
DeallocateLookup(t, ptr, h) ==
    IF ~Ok(h) \/ ~in_local_area(ptr)
    THEN Install(h) /\ Step(t, "idle", NoLoc)
    ELSE IF containing_superpage_block(h, ptr) = -1
    THEN Install(Fault(h, "abort")) /\ Step(t, "idle", NoLoc)
    ELSE /\ Install(h)
         /\ Step(t, "get_owner",
                 [NoLoc EXCEPT !.ptr = ptr, !.spb = containing_superpage_block(h, ptr)])

\* deallocate (b.ptr) up to the lookup of the containing SPB
DeallocateCall(t, b) ==
    /\ fault = "none"
    /\ apc[t] = "idle"
    /\ BagIn(b, live)
    /\ live' = live (-) SetToBag({b})
    /\ UNCHANGED nb_allocate
    /\ DeallocateLookup(t, b.ptr, process_thread_remote_frees(Heap, t))
    /\ UNCHANGED <<rev, client_vars>>

\* spb.get_owner (), and the thread local deallocation when it is this thread
DeallocateGetOwner(t) ==
    /\ fault = "none"
    /\ apc[t] = "get_owner"
    /\ IF ~HasSpb(Heap, aloc[t].spb)
       THEN Install(Fault(Heap, "segv")) /\ Step(t, "idle", NoLoc)
       ELSE IF spb[aloc[t].spb].owner = nullptr
       THEN Install(Heap) /\ Step(t, "adopt", aloc[t])
       ELSE IF spb[aloc[t].spb].owner = t
       THEN /\ Install(thread_local_deallocate(Heap, t, aloc[t].ptr, aloc[t].spb))
            /\ Step(t, "idle", NoLoc)
       ELSE /\ Install(Heap)
            /\ Step(t, "push", [aloc[t] EXCEPT !.owner = spb[aloc[t].spb].owner])
    /\ UNCHANGED <<rev, live, nb_allocate, client_vars>>

\* spb.get_owner () answers this thread: the thread local deallocation up to
\* the release or trim in the tracker of the SPB it destroys, if any
DeallocateRelease(t) ==
    /\ fault = "none"
    /\ apc[t] = "get_owner"
    /\ HasSpb(Heap, aloc[t].spb)
    /\ spb[aloc[t].spb].owner = t
    /\ \E h \in {thread_local_deallocate(HeapReleasing, t, aloc[t].ptr, aloc[t].spb)} :
          /\ Install(h)
          /\ IF h.pending = <<>>
             THEN Step(t, "idle", NoLoc)
             ELSE Step(t, "unmap", [NoLoc EXCEPT !.unmap = h.pending])
    /\ UNCHANGED <<rev, live, nb_allocate, client_vars>>

\* the VMem::unmap_checked that ends the destruction
DeallocateUnmap(t) ==
    /\ fault = "none"
    /\ apc[t] = "unmap"
    /\ Install(unmap_pending(Heap, aloc[t].unmap))
    /\ Step(t, "idle", NoLoc)
    /\ UNCHANGED <<rev, live, nb_allocate, client_vars>>

\* spb.adopt (this): on success the adoption and the thread local
\* deallocation; on failure the local owner is still nullptr
DeallocateAdopt(t) ==
    /\ fault = "none"
    /\ apc[t] = "adopt"
    /\ IF ~HasSpb(Heap, aloc[t].spb)
       THEN Install(Fault(Heap, "segv")) /\ Step(t, "idle", NoLoc)
       ELSE IF adopt(spb[aloc[t].spb].owner)
       THEN /\ Install(deallocate_adopted(Heap, t, aloc[t].ptr, aloc[t].spb))
            /\ Step(t, "idle", NoLoc)
       ELSE Install(Heap) /\ Step(t, "push", [aloc[t] EXCEPT !.owner = nullptr])
    /\ UNCHANGED <<rev, live, nb_allocate, client_vars>>

\* owner->remote_freed_blocks.push_front; the heap of an exited thread is
\* destroyed memory: the write is lost in it, or the process dies
DeallocateRemote(t) ==
    /\ fault = "none"
    /\ apc[t] = "push"
    /\ \E outcome \in IF aloc[t].owner # nullptr /\ apc[aloc[t].owner] = "exited"
                      THEN {"pushed", "segv"} ELSE {"pushed"} :
          /\ Install(IF outcome = "pushed"
                     THEN deallocate_remote(Heap, t, aloc[t].ptr, aloc[t].spb, aloc[t].owner)
                     ELSE Fault(Heap, "segv"))
          /\ Step(t, "idle", NoLoc)
    /\ UNCHANGED <<rev, live, nb_allocate, client_vars>>

\* ~ThreadLocalHeap: the loop over owned_superpage_blocks goes on or ends
ThreadExitStep(t, h) ==
    /\ Install(h)
    /\ Step(t, IF empty(h, ORoot(t)) THEN "exited" ELSE "disown", NoLoc)

\* ~ThreadLocalHeap: the last process_thread_remote_frees
ThreadExit(t) ==
    /\ fault = "none"
    /\ apc[t] = "idle"
    /\ ThreadExitStep(t, process_thread_remote_frees(Heap, t))
    /\ UNCHANGED <<rev, live, nb_allocate, client_vars>>

\* SuperpageBlock::disown
disown(h, n) ==
    IF Ok(h) THEN [h EXCEPT !.spb[n].owner = nullptr, !.adopters[n] = {}] ELSE h

\* ~ThreadLocalHeap: one turn of the loop that disowns the owned SPBs, e
\* the front of owned_superpage_blocks
ThreadDisownFront(t, e) ==
    IF ~CellOk(Heap, e)
    THEN Install(Fault(Heap, "segv")) /\ Step(t, "disown", NoLoc)
    ELSE IF e[1] # "o"
    THEN Install(Fault(Heap, "corrupt")) /\ Step(t, "disown", NoLoc)
    ELSE ThreadExitStep(t, disown(unlink_page_blocks(pop_front(Heap, t, ORoot(t)),
                                                     t, e[2], 0, SuperpagePageNB),
                                  e[2]))

ThreadDisown(t) ==
    /\ fault = "none"
    /\ apc[t] = "disown"
    /\ ThreadDisownFront(t, front(Heap, ORoot(t)))
    /\ UNCHANGED <<rev, live, nb_allocate, client_vars>>

(***************************************************************************)
(* Initial state and the two specifications.                               *)
(***************************************************************************)
TrackerInit ==
    /\ mapping_table = [w \in Words |-> zeros]
    /\ sequence_table = [w \in Words |-> zeros]

ClientInit ==
    /\ pc = [t \in Threads |-> "idle"]
    /\ loc = [t \in Threads |-> IdleLoc]
    /\ held = [t \in Threads |-> {}]

HeapInit ==
    /\ spb = [n \in LocalSuperpages |-> NoSpb]
    /\ links = [c \in Cells |-> reset(c)]
    /\ inbox = [t \in Heaps |-> <<>>]
    /\ fault = "none"
    /\ foreign = FALSE
    /\ adopters = [n \in LocalSuperpages |-> {}]
    /\ head = nullptr
    /\ next = [e \in Elements |-> nullptr]
    /\ detached = SetToBag(Elements)
    /\ apc = [t \in Heaps |-> "idle"]
    /\ aloc = [t \in Heaps |-> NoLoc]
    /\ live = EmptyBag
    /\ nb_allocate = 0

vars == <<tracker_vars, client_vars, heap_vars, thread_vars>>

\* the tracker alone, either revision, under concurrent calls
\* the allocator is not running
TrackerFrame == UNCHANGED <<heap_vars, thread_vars>>

TrackerNext ==
    \E t \in Threads :
        \/ \E nb \in 1 .. MaxCount : AcquireCall(t, nb) /\ TrackerFrame
        \/ AcquireLoad(t) /\ TrackerFrame
        \/ AcquireLoadMiddle(t) /\ TrackerFrame
        \/ AcquireLoadTail(t) /\ TrackerFrame
        \/ AcquireCasOneCell(t) /\ TrackerFrame
        \/ SetFirst(t) /\ TrackerFrame
        \/ SetMiddle(t) /\ TrackerFrame
        \/ SetTail(t) /\ TrackerFrame
        \/ DoOp(t) /\ TrackerFrame
        \/ \E r \in held[t] : ReleaseCall(t, r) /\ TrackerFrame
        \/ \E r \in held[t] : TrimCall(t, r) /\ TrackerFrame

\* both revisions of the tracker
TrackerSpecInit ==
    /\ rev \in {"old", "new"}
    /\ TrackerInit /\ ClientInit /\ HeapInit

TrackerSpec == TrackerSpecInit /\ [][TrackerNext]_vars

\* the allocator is built on the old revision of the tracker
AllocatorInit ==
    /\ rev = "old"
    /\ TrackerInit /\ ClientInit /\ HeapInit

\* arguments of allocate: a small block, a medium block of two pages, the
\* MediumHigh threshold, a huge block that ends inside its last superpage,
\* a huge block of whole superpages
Aligns == {2 ^ k : k \in 0 .. PageShift}
HeapSizes == {Smallest, PageSize + 1, MediumHigh, SuperpageSize + 1}
DeepSizes == {Smallest, PageSize + 1, MediumHigh, 3 * SuperpageSize}

NbExited == Cardinality({u \in Heaps : apc[u] \in {"disown", "exited"}})
NbDeallocate == nb_allocate - BagCardinality(live)

\* the allocator of allocator.h, built on the tracker it is written for:
\* any thread makes any call
HeapNext ==
    \E t \in Heaps :
        \/ /\ nb_allocate < MaxAllocate
           /\ BagCardinality(live) < MaxLive
           /\ \E size \in HeapSizes, align0 \in Aligns : AllocateCall(t, size, align0)
        \/ \E b \in BagToSet(live) : DeallocateCall(t, b)
        \/ DeallocateGetOwner(t)
        \/ DeallocateAdopt(t)
        \/ DeallocateRemote(t)
        \/ NbExited < MaxExit /\ ThreadExit(t)
        \/ ThreadDisown(t)

HeapSpec == AllocatorInit /\ [][HeapNext]_vars

\* longer runs of two threads: more allocate calls, few deallocate calls;
\* thread 1 makes the first call
DeepThreads == {1, 2}
DeepNext ==
    \E t \in DeepThreads :
        \/ /\ nb_allocate = 0 => t = 1
           /\ nb_allocate < DeepAllocate
           /\ BagCardinality(live) < DeepLive
           /\ \E size \in DeepSizes : AllocateCall(t, size, 1)
        \/ /\ NbDeallocate < DeepDeallocate
           /\ \E b \in BagToSet(live) : DeallocateCall(t, b)
        \/ DeallocateGetOwner(t)
        \/ DeallocateAdopt(t)
        \/ DeallocateRemote(t)
        \/ /\ nb_allocate = 0 => t = 1
           /\ NbExited < MaxExit
           /\ ThreadExit(t)
        \/ ThreadDisown(t)

DeepSpec == AllocatorInit /\ [][DeepNext]_vars

\* the workload of the multithread test of allocator.t.cpp:107-162: two
\* threads allocate in turn, then each frees the blocks of the other, then
\* each exits
CrossThreads == {1, 2}
CrossNext ==
    \E t \in CrossThreads :
        \/ /\ nb_allocate < CrossAllocate
           /\ t = (nb_allocate % 2) + 1
           /\ \E size \in HeapSizes : AllocateCall(t, size, 1)
        \/ /\ nb_allocate = CrossAllocate
           /\ \E b \in BagToSet(live) : b.by # t /\ DeallocateCall(t, b)
        \/ DeallocateGetOwner(t)
        \/ DeallocateAdopt(t)
        \/ DeallocateRemote(t)
        \/ /\ nb_allocate = CrossAllocate
           /\ live = EmptyBag
           /\ ThreadExit(t)
        \/ ThreadDisown(t)

CrossSpec == AllocatorInit /\ [][CrossNext]_vars

\* one thread allocates and frees its own blocks (the monothread test of
\* allocator.t.cpp, with any order of the calls)
OwnerNext ==
    \/ /\ nb_allocate < OwnerAllocate
       /\ \E size \in HeapSizes, align0 \in Aligns : AllocateCall(1, size, align0)
    \/ \E b \in BagToSet(live) : DeallocateCall(1, b)
    \/ DeallocateGetOwner(1)

OwnerSpec == AllocatorInit /\ [][OwnerNext]_vars

\* the superpages of a held range <<first, count>>
RangeOf(r) == r[1] .. (r[1] + r[2] - 1)

(***************************************************************************)
(* C1: under any interleaving of acquire, release and trim, the ranges     *)
(* returned by acquire and not yet released or trimmed away are pairwise   *)
(* disjoint, and lie in the searched interval.                             *)
(***************************************************************************)
C1_HeldRangesDisjoint ==
    \A t1 \in Threads, t2 \in Threads :
        \A r1 \in held[t1], r2 \in held[t2] :
            /\ RangeOf(r1) \subseteq LocalSuperpages
            /\ (t1 # t2 \/ r1 # r2) => RangeOf(r1) \cap RangeOf(r2) = {}

\* thread 1 holds a range covering a whole middle word, thread 2 the range
\* right after it, both calls returned
C1_TwoHoldersReached ==
    /\ \A t \in Threads : pc[t] = "idle"
    /\ \E r1 \in held[1], r2 \in held[2] :
          /\ r1[2] >= Bits + 1
          /\ r2[1] = r1[1] + r1[2]

(***************************************************************************)
(* C2: at every step of concurrent acquire / release / trim calls, no      *)
(* position has its sequence bit set while its mapping bit is clear.       *)
(***************************************************************************)
C2_SequenceImpliesMapping ==
    \A w \in Words : sequence_table[w] \subseteq mapping_table[w]

(***************************************************************************)
(* C3: for every superpage k of a held range, the sequence start lookup    *)
(* returns the first superpage of that range.                              *)
(***************************************************************************)
C3_SequenceStartIsFirst ==
    \A t \in Threads : \A r \in held[t] : \A k \in RangeOf(r) :
        get_sequence_start_num(k) = r[1]

(***************************************************************************)
(* C4: every block returned by allocate lies inside the local interval:    *)
(* its base is in the interval and base + size <= local_interval_end.      *)
(***************************************************************************)
C4_BlocksInLocalInterval ==
    \A b \in BagToSet(live) :
        /\ in_local_area(b.ptr)
        /\ b.ptr + b.size <= superpage(local_area_end)

(***************************************************************************)
(* C5: from every reachable state, allocate (s, a) immediately followed by *)
(* deallocate of the returned block by the same thread leaves the mapping  *)
(* bits and the sequence bits of the tracker as they were.                 *)
(***************************************************************************)
RoundTripBack(h) == Ok(h) /\ h.mt = mapping_table /\ h.st = sequence_table
RoundTrip(t, h) == Ok(h) => RoundTripBack(deallocate(h, t, h.blk.ptr))

C5_RoundTripRestoresTracker ==
    \A t \in Heaps, s \in 1 .. MaxSize, a \in Aligns :
        (fault = "none" /\ apc[t] = "idle" /\ inbox[t] = <<>>)
            => RoundTrip(t, allocate(Heap, t, s, a))

(***************************************************************************)
(* C6: once the thread has freed everything it allocated, in any order,    *)
(* every SPB is destroyed and no superpage is reserved in the tracker.     *)
(***************************************************************************)
NothingReserved ==
    /\ \A n \in LocalSuperpages : ~spb[n].mapped
    /\ \A w \in Words : mapping_table[w] = zeros

C6_AllFreedAllReleased ==
    (fault = "none" /\ apc[1] = "idle" /\ live = EmptyBag) => NothingReserved

(***************************************************************************)
(* C7: between two disowns of an SPB at most one thread observes adopt     *)
(* returning true for it.                                                  *)
(***************************************************************************)
C7_OneAdopter == \A n \in LocalSuperpages : Cardinality(adopters[n]) <= 1

\* a thread lost the race: adopt returned false to it, after it returned
\* true to another thread for the same SPB
C7_LostRaceReached ==
    \E t \in Heaps :
        /\ apc[t] = "push"
        /\ aloc[t].owner = nullptr
        /\ adopters[aloc[t].spb] # {}
        /\ t \notin adopters[aloc[t].spb]

(***************************************************************************)
(* C8: a thread whose adopt failed pushes the block on the inbox of the    *)
(* owner it raced against: the owner it is about to push to is not null.   *)
(***************************************************************************)
C8_LoserPushesToOwner ==
    \A t \in Heaps : apc[t] = "push" => aloc[t].owner # nullptr

(***************************************************************************)
(* C9: no thread ever writes the page block table or the unused list of an *)
(* SPB whose owner is not that thread at that moment.                      *)
(***************************************************************************)
C9_OnlyOwnerMutates == ~foreign

(***************************************************************************)
(* C10: two threads allocate, each frees the blocks of the other; once     *)
(* both have finished and the inboxes are drained no block is live and no  *)
(* superpage is reserved.                                                  *)
(***************************************************************************)
C10_CrossFreeRestoresState ==
    (/\ fault = "none"
     /\ \A t \in CrossThreads : apc[t] = "exited"
     /\ live = EmptyBag
     /\ \A t \in Heaps : inbox[t] = <<>>)
        => /\ \A n \in LocalSuperpages : spb[n] = NoSpb
           /\ \A w \in Words : mapping_table[w] = zeros /\ sequence_table[w] = zeros

\* thread 1 allocates and exits without freeing (the last phase of the
\* multithread test, allocator.t.cpp:139-155); thread 2 then frees the
\* blocks thread 1 left, in any order
OrphanSizes == {Smallest, PageSize + 1, SuperpageSize + 1}
OrphanNext ==
    \/ /\ nb_allocate < OrphanAllocate
       /\ \E size \in OrphanSizes : AllocateCall(1, size, 1)
    \/ nb_allocate > 0 /\ ThreadExit(1)
    \/ ThreadDisown(1)
    \/ /\ apc[1] = "exited"
       /\ \E b \in BagToSet(live) : DeallocateCall(2, b)
    \/ DeallocateGetOwner(2)
    \/ DeallocateAdopt(2)

OrphanSpec == AllocatorInit /\ [][OrphanNext]_vars

(***************************************************************************)
(* C11: after a thread that allocated blocks exits without freeing them,   *)
(* when another thread frees those blocks, no free is a remote free (the   *)
(* first free of an SPB adopts it, after which the SPB is owned by the     *)
(* freeing thread and the frees are local), and once the last block is     *)
(* freed every SPB is destroyed: no superpage is left mapped or reserved.  *)
(***************************************************************************)
C11_OrphansAdoptedThenDestroyed ==
    (fault = "none" /\ apc[1] = "exited")
        => /\ apc[2] # "push"
           /\ \A n \in LocalSuperpages : HasSpb(Heap, n) => spb[n].owner \in {nullptr, 2}
           /\ (apc[2] = "idle" /\ live = EmptyBag) => NothingReserved

\* one client calls the tracker, each call run to its end (the sequential
\* tests of superpage_tracker.t.cpp), in either revision
SerialAcquired(h, nb) ==
    /\ Install(h)
    /\ held' = [held EXCEPT ![1] = IF Ok(h) THEN @ \cup {<<h.r, nb>>} ELSE @]

SerialAcquire(nb) ==
    /\ fault = "none"
    /\ Cardinality(held[1]) < SerialHeld
    /\ SerialAcquired(acquire(Heap, nb), nb)
    /\ UNCHANGED <<rev, pc, loc, thread_vars>>

SerialRelease(r) ==
    /\ fault = "none"
    /\ r \in held[1]
    /\ Install(release(Heap, r[1], r[2]))
    /\ held' = [held EXCEPT ![1] = @ \ {r}]
    /\ UNCHANGED <<rev, pc, loc, thread_vars>>

SerialTrim(r) ==
    /\ fault = "none"
    /\ r \in held[1]
    /\ r[2] >= 2
    /\ Install(trim(Heap, r[1], r[2]))
    /\ held' = [held EXCEPT ![1] = (@ \ {r}) \cup {<<r[1], 1>>}]
    /\ UNCHANGED <<rev, pc, loc, thread_vars>>

SerialNext ==
    \/ \E nb \in 1 .. SerialCount : SerialAcquire(nb)
    \/ \E r \in held[1] : SerialRelease(r)
    \/ \E r \in held[1] : SerialTrim(r)

SerialSpec == TrackerSpecInit /\ [][SerialNext]_vars

\* superpage num has its mapping bit clear
Unreserved(num) == IndexOf(num).b \notin mapping_table[IndexOf(num).a]
\* the searched interval holds nb consecutive unreserved superpages
HasFreeRun(nb) ==
    \E s \in LocalSuperpages :
        /\ s + nb <= local_area_end
        /\ \A k \in s .. (s + nb - 1) : Unreserved(k)

(***************************************************************************)
(* C12: when the searched interval holds no run of count consecutive       *)
(* unreserved superpages, acquire (count) returns no range: it ends in the *)
(* out of space failure (ASSERT_STD_FAIL aborts the process).              *)
(***************************************************************************)
C12_NoRunThenOutOfSpace ==
    fault = "none"
        => \A nb \in 1 .. (SerialCount + 1) :
               ~HasFreeRun(nb) => acquire(Heap, nb).fault = "abort"

\* all but one superpage of the interval are held as single superpages, and
\* an acquire then died out of space
C12_LastPairRefused ==
    /\ fault = "abort"
    /\ Cardinality(held[1]) = SuperpageByNode - 1
    /\ \A r \in held[1] : r[2] = 1
    /\ Cardinality({k \in LocalSuperpages : Unreserved(k)}) = 1

\* the mapping bit and the sequence bit of superpage num in heap state h
MappingBit(h, num) == IndexOf(num).b \in h.mt[IndexOf(num).a]
SequenceBit(h, num) == IndexOf(num).b \in h.st[IndexOf(num).a]

\* h is the state trim left: first is a sequence of one superpage and the
\* count - 1 superpages after it are free
Trimmed(h, first, count) ==
    /\ Ok(h)
    /\ MappingBit(h, first) /\ ~SequenceBit(h, first)
    /\ \A k \in (first + 1) .. (first + count - 1) : ~MappingBit(h, k) /\ ~SequenceBit(h, k)

(***************************************************************************)
(* C13: trim of a reserved sequence of N >= 2 superpages starting at s     *)
(* leaves s reserved as a sequence of one superpage (mapping bit set,      *)
(* sequence bit clear) and leaves s+1 .. s+N-1 with mapping bit and        *)
(* sequence bit clear, wherever the sequence lies in the table words.      *)
(***************************************************************************)
C13_TrimLeavesOneSuperpage ==
    fault = "none"
        => \A r \in held[1] : r[2] >= 2 => Trimmed(trim(Heap, r[1], r[2]), r[1], r[2])

\* one thread allocates and frees blocks of every kind: small, medium of one
\* to three pages, and huge blocks that start at each page of the first
\* superpage of their SPB or fill whole superpages
PageSizes ==
    {Smallest, PageSize + 1, 2 * PageSize + 1, MediumHigh, SuperpageSize + 1,
     SuperpageSize + PageSize + 1, SuperpageSize + MediumHigh}
PageNext ==
    \/ /\ nb_allocate < PageAllocate
       /\ \E size \in PageSizes : AllocateCall(1, size, 1)
    \/ \E b \in BagToSet(live) : DeallocateCall(1, b)
    \/ DeallocateGetOwner(1)

PageSpec == AllocatorInit /\ [][PageNext]_vars

\* the page table of a live SPB n: the head, the run length and the type
\* recorded at page index i
LiveSpbs == {n \in LocalSuperpages : spb[n].mapped}
RunHead(n, i) == spb[n].pbh_table[i].head
RunLength(n, i) == spb[n].pbh_table[i].nb_page
RunType(n, i) == spb[n].pbh_table[i].type
UnusedHeads(n) == {i \in Pages : RunType(n, i) = "Unused" /\ RunHead(n, i) = i}
AllocatedHeads(n) == {i \in Pages : RunType(n, i) \in {"Small", "Medium"} /\ RunHead(n, i) = i}

(***************************************************************************)
(* C14: in every live SPB every page index i belongs to exactly one run:   *)
(* the record at i points to a head h, itself a head, with                 *)
(* h <= i < h + run_length (h), and a head that is not Reserved has        *)
(* run_length >= 1.                                                        *)
(***************************************************************************)
C14_EveryPageInOneRun ==
    fault = "none"
        => \A n \in LiveSpbs : \A i \in Pages :
               /\ RunHead(n, i) \in Pages
               /\ RunHead(n, RunHead(n, i)) = RunHead(n, i)
               /\ RunHead(n, i) <= i
               /\ i < RunHead(n, i) + RunLength(n, RunHead(n, i))
               /\ RunType(n, RunHead(n, i)) # "Reserved" => RunLength(n, RunHead(n, i)) >= 1

\* after two frees an SPB holds an allocated page block and an Unused run
C14_AllocatedAndUnusedAfterFrees ==
    /\ fault = "none"
    /\ NbDeallocate >= 2
    /\ apc[1] = "idle"
    /\ \E n \in LiveSpbs : AllocatedHeads(n) # {} /\ UnusedHeads(n) # {}

(***************************************************************************)
(* C15: adjacent Unused runs never coexist: for every Unused run [a, b[    *)
(* of a live SPB the page before a, if any, and the page at b, if b is in  *)
(* the table, are not Unused.                                              *)
(***************************************************************************)
C15_NoAdjacentUnusedRuns ==
    fault = "none"
        => \A n \in LiveSpbs : \A a \in UnusedHeads(n) :
               /\ a = 0 \/ RunType(n, a - 1) # "Unused"
               /\ \/ a + RunLength(n, a) >= SuperpagePageNB
                  \/ RunType(n, a + RunLength(n, a)) # "Unused"

\* the huge alloc of an SPB was destroyed and its pages in the first
\* superpage were merged with the Unused run before them, which follows an
\* allocated page block
C15_HugeMergedWithPrevious ==
    /\ fault = "none"
    /\ \E n \in LiveSpbs :
          /\ spb[n].superpage_nb = 1
          /\ spb[n].huge_alloc_pb_index < SuperpagePageNB
          /\ RunType(n, spb[n].huge_alloc_pb_index) = "Unused"
          /\ RunHead(n, spb[n].huge_alloc_pb_index) < spb[n].huge_alloc_pb_index
          /\ RunHead(n, spb[n].huge_alloc_pb_index) - 1 \in AllocatedHeads(n)

\* the elements of a list from cur up to its root
RECURSIVE ListFrom(_, _, _)
ListFrom(root, cur, fuel) ==
    IF cur = root \/ fuel = 0 THEN <<>>
    ELSE <<cur>> \o ListFrom(root, links[cur].next, fuel - 1)

\* the elements of the slots 1 .. k of the unused quicklist of SPB n
RECURSIVE UnusedEntries(_, _)
UnusedEntries(n, k) ==
    IF k = 0 THEN <<>>
    ELSE UnusedEntries(n, k - 1) \o ListFrom(URoot(n, k), links[URoot(n, k)].next, MaxWalk)

Times(seq, e) == Cardinality({j \in DOMAIN seq : seq[j] = e})
QuickListMatchesRuns(n, entries) ==
    /\ \A j \in DOMAIN entries : entries[j] \in {UElem(n, i) : i \in UnusedHeads(n)}
    /\ \A i \in UnusedHeads(n) : Times(entries, UElem(n, i)) = 1

(***************************************************************************)
(* C16: in every live SPB, from construction onward, the unused quicklist  *)
(* holds exactly one entry per Unused run of the page table, and every     *)
(* entry of the quicklist is the head of an Unused run.                    *)
(***************************************************************************)
C16_QuickListIsUnusedRuns ==
    fault = "none"
        => \A n \in LiveSpbs : QuickListMatchesRuns(n, UnusedEntries(n, bigger_sizes))

\* heap state h holds at superpage n an SPB of one superpage whose huge
\* alloc starts right after the header, and blk is all its usable memory
WholeSuperpageHuge(h, n, blk) ==
    /\ HasSpb(h, n)
    /\ h.spb[n].superpage_nb = 1
    /\ h.spb[n].huge_alloc_pb_index = HeaderSpacePages
    /\ blk.ptr = superpage(n) + HeaderSpacePages * PageSize
    /\ blk.size = AvailablePages * PageSize

\* h is the state a call of allocate left
ServedAsWholeSuperpage(h) == Ok(h) => WholeSuperpageHuge(h, superpage_num_of(h.blk.ptr), h.blk)

SweepShifts == 2 .. (PageShift + SuperpagePageShift)
SweepUnder == [k \in 1 .. Cardinality(SweepShifts) |-> 2 ^ (k + 1) - 1]
SweepExact == [k \in 1 .. Cardinality(SweepShifts) |-> 2 ^ (k + 1)]
SweepAbove == [k \in 1 .. Cardinality(SweepShifts) |-> 2 ^ (k + 1) + 1]
SweepSizes == SweepUnder \o SweepExact \o SweepAbove \o <<(AvailablePages + 1) * PageSize>>

\* one thread makes these allocations in this order, and frees any of its
\* blocks at any time
SweepNext ==
    \/ /\ nb_allocate < Len(SweepSizes)
       /\ AllocateCall(1, SweepSizes[nb_allocate + 1], 1)
    \/ \E b \in BagToSet(live) : DeallocateCall(1, b)
    \/ DeallocateGetOwner(1)

SweepSpec == AllocatorInit /\ [][SweepNext]_vars

\* the SPBs a call created: live in the state h it left, not live before
CreatedSpbs(h) == {n \in LocalSuperpages : HasSpb(h, n) /\ ~HasSpb(Heap, n)}
\* SPB n of h is a huge-alloc SPB of two or more superpages
IsHugeSpb(h, n) == HasSpb(h, n) /\ h.spb[n].superpage_nb >= 2

\* h is the state allocate (size) left
SweepServed(h, size) ==
    Ok(h) => IF size > AvailablePages * PageSize
             THEN /\ Cardinality(CreatedSpbs(h)) = 1
                  /\ \A n \in CreatedSpbs(h) :
                         IsHugeSpb(h, n) /\ h.blk = huge_alloc_memory(h.spb[n], n)
             ELSE /\ Cardinality(CreatedSpbs(h)) <= 1
                  /\ \A n \in CreatedSpbs(h) : h.spb[n].superpage_nb = 1

(***************************************************************************)
(* C18, as the code has it: every allocation of the test whose size        *)
(* exceeds AvailablePages * PageSize (2^i - 1, 2^i, 2^i + 1 for the        *)
(* largest i, and (AvailablePages + 1) * PageSize) creates a huge-alloc    *)
(* SPB of two or more superpages of its own and returns its huge alloc;    *)
(* every other allocation creates no SPB or one SPB of one superpage.      *)
(***************************************************************************)
C18_OneHugeSpbPerHugeSize ==
    (fault = "none" /\ apc[1] = "idle")
        => \A k \in DOMAIN SweepSizes : SweepServed(allocate(Heap, 1, SweepSizes[k], 1),
                                                    SweepSizes[k])

\* with no block freed yet, two huge-alloc SPBs are live, and a medium block
\* lies in the first superpage of one of them
C18_TwoHugeSpbsReached ==
    /\ fault = "none"
    /\ NbDeallocate = 0
    /\ Cardinality({n \in LocalSuperpages : IsHugeSpb(Heap, n)}) = 2
    /\ \E b \in BagToSet(live) :
          /\ IsHugeSpb(Heap, superpage_num_of(b.ptr))
          /\ ~in_huge_alloc(spb[superpage_num_of(b.ptr)], superpage_num_of(b.ptr), b.ptr)

\* C18 as stated: while the test allocates, at most one huge-alloc SPB of
\* two or more superpages exists, and every block that is not a huge alloc
\* lies in an SPB of one superpage
C18_ExactlyOneHugeSpb ==
    (fault = "none" /\ NbDeallocate = 0)
        => /\ Cardinality({n \in LocalSuperpages : IsHugeSpb(Heap, n)}) <= 1
           /\ \A b \in BagToSet(live) :
                  HasSpb(Heap, superpage_num_of(b.ptr))
                      => \/ spb[superpage_num_of(b.ptr)].superpage_nb = 1
                         \/ in_huge_alloc(spb[superpage_num_of(b.ptr)],
                                          superpage_num_of(b.ptr), b.ptr)

\* the sizes a call may ask for: every size from 0 to one above the largest
\* huge size of PageSizes, the thresholds SmallMedium and MediumHigh and
\* their neighbours included
RequestSizes == 0 .. (SuperpageSize + MediumHigh + 1)

\* the block returned by a call is at least as large as the request
ReturnsAtLeast(h, size) == Ok(h) => h.blk.size >= size

(***************************************************************************)
(* C19: every call allocate(size, align) that returns gives a block whose  *)
(* actual size is at least size: in the small, medium and huge classes and *)
(* at the thresholds SmallMedium and MediumHigh, whatever the heap holds.  *)
(***************************************************************************)
C19_ActualSizeAtLeastRequested ==
    (fault = "none" /\ apc[1] = "idle") =>
       \A size \in RequestSizes : \A a \in Aligns :
          ReturnsAtLeast(allocate(Heap, 1, size, a), size)

\* blocks of the three classes are live at once: the medium one and the huge
\* one are larger than the requests of PageSizes that they answer
\* (PageSize + 1 and SuperpageSize + 1)
C19_ThreeClassesLive ==
    /\ fault = "none"
    /\ \E b \in BagToSet(live) : b.size = block_size(id(Smallest))
    /\ \E b \in BagToSet(live) :
          /\ b.size = 2 * PageSize
          /\ Heap.spb[superpage_num_of(b.ptr)].pbh_table[
                 (b.ptr - superpage(superpage_num_of(b.ptr))) \div PageSize].type = "Medium"
    /\ \E b \in BagToSet(live) : b.size = SuperpageSize + PageSize

\* one thread that only calls allocate (0, align), with every permitted
\* alignment, and frees the blocks it got
ZeroNext ==
    \/ nb_allocate < ZeroAllocate /\ \E a \in Aligns : AllocateCall(1, 0, a)
    \/ \E b \in BagToSet(live) : DeallocateCall(1, b)
    \/ DeallocateGetOwner(1)

ZeroSpec == AllocatorInit /\ [][ZeroNext]_vars

\* the size of the block that allocate (0, align) returns: the request is
\* raised to the alignment, and classified as any other size
ZeroBlockSize(a) ==
    IF a < SmallMedium THEN Max(a, Smallest)
    ELSE divide_up(a, PageSize) * PageSize

FatalNext ==
    \/ nb_allocate < FatalAllocate /\ \E size \in PageSizes : AllocateCall(1, size, 1)
    \/ nb_allocate < FatalAllocate /\ \E size \in PageSizes : AllocateUnmappable(1, size, 1)
    \/ \E b \in BagToSet(live) : DeallocateCall(1, b)
    \/ DeallocateGetOwner(1)

FatalSpec == AllocatorInit /\ [][FatalNext]_vars

\* allocate returned a block that is not null and lies in the local area,
\* or the process was terminated by a failed assertion
ReturnedOrFatal(h) ==
    IF Ok(h)
    THEN h.blk # NoBlock /\ h.blk.ptr # nullptr /\ h.blk.size > 0
         /\ in_local_area(h.blk.ptr)
    ELSE h.fault = "abort"

\* the tracker has a run of nb free superpages in the local area, as
\* acquire searches for it
RunFound(h, nb) == Ok(acquire(h, nb))

(***************************************************************************)
(* C21: every allocate call returns a block that is not null, or ends the  *)
(* program by a fatal error; it returns no null or failure result.  This   *)
(* covers the tracker being out of space and the OS refusing the mapping:  *)
(* a call that needs a new SPB in one of these cases ends the program.     *)
(***************************************************************************)
C21_ReturnsBlockOrTerminates ==
    (fault = "none" /\ apc[1] = "idle") =>
       \A size \in RequestSizes : \A a \in Aligns :
          /\ ReturnedOrFatal(allocate(Heap, 1, size, a))
          /\ ReturnedOrFatal(allocate(HeapUnmappable, 1, size, a))
          /\ (size >= MediumHigh =>
                 /\ ~Ok(allocate(HeapUnmappable, 1, size, a))
                 /\ (~RunFound(Heap, divide_up(divide_up(size, PageSize) + HeaderSpacePages,
                                               SuperpagePageNB))
                        => ~Ok(allocate(Heap, 1, size, a))))

\* the program was terminated by an allocate call while blocks were live and
\* the local area had no room for a huge SPB of two superpages
C21_TerminatedOutOfSpace ==
    /\ fault = "abort"
    /\ apc[1] = "idle"
    /\ live # EmptyBag
    /\ ~HasFreeRun(2)

\* the addresses inside the block b
Inside(b) == b.ptr .. (b.ptr + b.size - 1)

\* deallocate (q) for an address q inside the live block b, up to the lookup
\* of the containing SPB
DeallocateInside(t, b, q) ==
    /\ fault = "none"
    /\ apc[t] = "idle"
    /\ BagIn(b, live)
    /\ q \in Inside(b)
    /\ live' = live (-) SetToBag({b})
    /\ UNCHANGED nb_allocate
    /\ DeallocateLookup(t, q, process_thread_remote_frees(Heap, t))
    /\ UNCHANGED <<rev, client_vars>>

\* one thread that allocates, and frees its blocks by any address inside them
InsideNext ==
    \/ nb_allocate < InsideAllocate /\ \E size \in PageSizes : AllocateCall(1, size, 1)
    \/ \E b \in BagToSet(live) : \E q \in Inside(b) : DeallocateInside(1, b, q)
    \/ DeallocateGetOwner(1)

InsideSpec == AllocatorInit /\ [][InsideNext]_vars

\* deallocate (q) frees the block b and nothing else: it leaves the
\* allocator as deallocate (b.ptr) does
FreesBlock(h, t, b, q) == deallocate(h, t, q) = deallocate(h, t, b.ptr)

\* PageBlockHeader::put_small_block rounds the address down to the block
\* boundary: every address of a block of size class sc gives the same header
PutSmallRounds ==
    \A sc \in SizeClasses : \A base \in {0, block_size(sc)} :
        \A q \in base .. (base + block_size(sc) - 1) :
            put_small_block(configure_small_blocks(NewPbh, sc), q, sc)
                = put_small_block(configure_small_blocks(NewPbh, sc), base, sc)

(***************************************************************************)
(* C22: deallocate(q) for any address q inside a live allocation frees     *)
(* exactly that allocation, as deallocate of its base address does: a      *)
(* small block by rounding q down to the block boundary, a medium or huge  *)
(* block by resolving q to the containing page block or huge region.       *)
(***************************************************************************)
C22_InsideAddressFreesBlock ==
    (fault = "none" /\ apc[1] = "idle") =>
       /\ PutSmallRounds
       /\ \A b \in BagToSet(live) : \A q \in Inside(b) : FreesBlock(Heap, 1, b, q)

\* the state after thread t drained its remote inbox
Drained(t) == process_thread_remote_frees(Heap, t)

(***************************************************************************)
(* C23: draining the remote inbox of a thread twice in a row, no block     *)
(* being pushed in between, is a no-op: after the first drain the inbox is *)
(* empty, and the second drain frees nothing and leaves every SPB, page    *)
(* block and list as the first drain left them.                            *)
(***************************************************************************)
C23_SecondDrainIsNoOp ==
    fault = "none" =>
       \A t \in Heaps :
          (apc[t] = "idle" /\ Ok(Drained(t))) =>
             /\ Drained(t).inbox[t] = <<>>
             /\ process_thread_remote_frees(Drained(t), t) = Drained(t)

\* a thread is about to drain an inbox that holds a block: the first drain
\* frees it
C23_DrainFreesBlock ==
    /\ fault = "none"
    /\ \E t \in Heaps :
          /\ apc[t] = "idle"
          /\ inbox[t] # <<>>
          /\ Ok(Drained(t))
          /\ Drained(t).spb # spb

\* the byte ranges [from1, to1) and [from2, to2) meet
Meet(from1, to1, from2, to2) == from1 < to2 /\ from2 < to1
\* the blocks b1 and b2 overlap
Overlap(b1, b2) == Meet(b1.ptr, b1.ptr + b1.size, b2.ptr, b2.ptr + b2.size)
\* the block b overlaps the header pages of the SPB at superpage n
OverlapsHeader(b, n) ==
    Meet(b.ptr, b.ptr + b.size, superpage(n), superpage(n) + HeaderSpacePages * PageSize)

(***************************************************************************)
(* C24: no two live allocations overlap.  The byte ranges                  *)
(* [base, base + actual_size) of distinct live blocks are pairwise         *)
(* disjoint (no block is live twice), and disjoint from the header pages   *)
(* of every SPB.                                                           *)
(***************************************************************************)
C24_LiveBlocksDisjoint ==
    fault = "none" =>
       /\ \A b \in BagToSet(live) : CopiesIn(b, live) = 1
       /\ \A b1, b2 \in BagToSet(live) : b1 # b2 => ~Overlap(b1, b2)
       /\ \A b \in BagToSet(live) : \A n \in LiveSpbs : ~OverlapsHeader(b, n)

\* the superpages that the block b lies in
SuperpagesOf(b) == superpage_num_of(b.ptr) .. superpage_num_of(b.ptr + b.size - 1)

(***************************************************************************)
(* C25: an SPB is never released in the tracker or unmapped while an       *)
(* allocation inside it is live.  Every superpage that a live block lies   *)
(* in is reserved in the tracker and is mapped memory of an SPB, also      *)
(* after the huge allocation of the SPB was destroyed and the SPB shrank   *)
(* to one superpage.                                                       *)
(***************************************************************************)
C25_LiveBlocksStayMapped ==
    fault = "none" =>
       \A b \in BagToSet(live) : \A num \in SuperpagesOf(b) :
          /\ MappingBit(Heap, num)
          /\ IsMapped(Heap, num)

\* two threads allocate and free their own blocks; the destruction of an SPB
\* is two steps, the release or trim in the tracker and the unmap
RaceThreads == {1, 2}
RaceSizes == {PageSize + 1, SuperpageSize + 1}
RaceNext ==
    \E t \in RaceThreads :
        \/ nb_allocate < RaceAllocate /\ \E size \in RaceSizes : AllocateCall(t, size, 1)
        \/ \E b \in BagToSet(live) : b.by = t /\ DeallocateCall(t, b)
        \/ DeallocateRelease(t)
        \/ DeallocateUnmap(t)

RaceSpec == AllocatorInit /\ [][RaceNext]_vars

(***************************************************************************)
(* C26: a superpage is never unmapped after another thread has reserved    *)
(* and mapped it.  Every superpage that is reserved in the tracker and was *)
(* mapped for an SPB is mapped memory of that SPB, and its header is still *)
(* there, until the owner of the SPB releases or trims it: the first       *)
(* superpage of every live block holds the header of the SPB of its owner. *)
(***************************************************************************)
C26_ReservedStaysMapped ==
    fault = "none" =>
       \A b \in BagToSet(live) :
          /\ MappingBit(Heap, superpage_num_of(b.ptr))
          /\ \E n \in LocalSuperpages :
                /\ HasSpb(Heap, n)
                /\ spb[n].owner = b.by
                /\ n <= superpage_num_of(b.ptr)
                /\ superpage_num_of(b.ptr) < n + spb[n].superpage_nb

\* thread t has performed the last drain of its inbox: its destructor is
\* disowning its SPBs, or has ended
PastLastDrain(t) == apc[t] \in {"disown", "exited"}

(***************************************************************************)
(* C27: a remote free that races with the exit of the thread that owns the *)
(* SPB is not lost.  No block is ever on the inbox of a heap that has      *)
(* performed its last drain, and no thread is about to push a block on     *)
(* such an inbox: the block is freed by the final drain of the owner or by *)
(* the thread that adopts the SPB.                                         *)
(***************************************************************************)
C27_RemoteFreeNotLost ==
    fault = "none" =>
       \A t \in Heaps :
          PastLastDrain(t) =>
             /\ inbox[t] = <<>>
             /\ \A u \in Heaps : apc[u] = "push" => aloc[u].owner # t

\* the Small page block headers (heads of runs) of SPB n
SmallHeads(n) ==
    {i \in Pages : spb[n].pbh_table[i].type = "Small" /\ spb[n].pbh_table[i].head = i}
\* the cells of the active list of class sc of thread t
ActiveCells(t, sc) == ListFrom(ARoot(t, sc), links[ARoot(t, sc)].next, MaxWalk)
\* page block i of SPB n, of class sc, is neither empty nor full
PartlyUsed(n, i, sc) ==
    /\ available_small_blocks(spb[n].pbh_table[i], sc) > 0
    /\ available_small_blocks(spb[n].pbh_table[i], sc) < nb_blocks(sc)

(***************************************************************************)
(* C28: between two allocator calls of a thread, a Small page block of an  *)
(* SPB owned by that thread is linked in the thread's active list of its   *)
(* size class if and only if it is neither empty nor full, and it is       *)
(* linked there once; this also holds right after the thread adopted an    *)
(* orphan SPB.                                                             *)
(***************************************************************************)
C28_ActiveIffPartlyUsed ==
    fault = "none" =>
       \A t \in Heaps : apc[t] = "idle" =>
          \A n \in LiveSpbs : spb[n].owner = t =>
             \A i \in SmallHeads(n) :
                LET sc == spb[n].pbh_table[i].sb_sizeclass
                IN  Times(ActiveCells(t, sc), AElem(n, i))
                       = IF PartlyUsed(n, i, sc) THEN 1 ELSE 0

\* the front of the active list of class sc of thread t, which the next
\* allocate_small_block of the class takes its block from, has a block left
FrontHasBlock(t, sc) ==
    LET e == front(Heap, ARoot(t, sc))
    IN  /\ e[1] = "a"
        /\ HasSpb(Heap, e[2])
        /\ available_small_blocks(spb[e[2]].pbh_table[e[3]], sc) > 0

(***************************************************************************)
(* C29: every take_small_block of the allocation path happens on a page    *)
(* block with at least one available block: the front of every active     *)
(* list has one.  So no Small page block has more blocks carved than a     *)
(* page block holds, and every small block returned lies inside the page   *)
(* block it was taken from.                                                *)
(***************************************************************************)
C29_TakeOnlyWhenAvailable ==
    fault = "none" =>
       /\ \A t \in Heaps : apc[t] = "idle" =>
             \A sc \in SizeClasses : ~empty(Heap, ARoot(t, sc)) => FrontHasBlock(t, sc)
       /\ \A n \in LiveSpbs : \A i \in SmallHeads(n) :
             spb[n].pbh_table[i].sb_nb_carved <= nb_blocks(spb[n].pbh_table[i].sb_sizeclass)
       /\ \A b \in BagToSet(live) :
             b.size < SmallMedium =>
                \E n \in LiveSpbs : \E i \in SmallHeads(n) :
                   /\ page_block_memory(spb[n], n, i).ptr <= b.ptr
                   /\ b.ptr + b.size <= page_block_memory(spb[n], n, i).ptr
                                           + page_block_memory(spb[n], n, i).size

\* the addresses of the superpage block whose header is in superpage n
AddressesOf(n) ==
    superpage(n) .. superpage(n) + spb[n].superpage_nb * SuperpageSize - 1

(***************************************************************************)
(* C30: a live superpage block of one superpage holds no huge allocation:  *)
(* its huge_alloc_pb_index is superpage_nb * SuperpagePageNB and           *)
(* in_huge_alloc is false for every address of the block.  This holds     *)
(* also after destroy_huge_alloc has set superpage_nb to 1.                *)
(***************************************************************************)
C30_OneSuperpageNoHugeAlloc ==
    fault = "none" =>
       \A n \in LiveSpbs :
          spb[n].superpage_nb = 1 =>
             /\ spb[n].huge_alloc_pb_index = spb[n].superpage_nb * SuperpagePageNB
             /\ \A p \in AddressesOf(n) : ~in_huge_alloc(spb[n], n, p)

\* the superpage numbers whose bit is set in a table
SetBits(table) == {superpage_num(Index(a, b)) : a \in Words, b \in BitIdx} \cap
                  {n \in 0 .. (table_size * Bits - 1) : IndexOf(n).b \in table[IndexOf(n).a]}

\* h is the state a successful acquire (nb) left: the mapping bits of the
\* run returned and the sequence bits of the run but its first superpage
\* were added to the tables, and nothing else changed
AcquiredExactly(h, nb) ==
    /\ SetBits(h.mt) = SetBits(mapping_table) \cup (h.r .. (h.r + nb - 1))
    /\ SetBits(h.st) = SetBits(sequence_table) \cup ((h.r + 1) .. (h.r + nb - 1))

(***************************************************************************)
(* C31: an acquire (count) that returns s sets exactly the mapping bits    *)
(* s .. s+count-1 and exactly the sequence bits s+1 .. s+count-1, and      *)
(* changes no other bit of either table, for every count >= 1 and every    *)
(* position of s in its word, the last bit of a word included.             *)
(***************************************************************************)
C31_AcquireSetsExactlyItsBits ==
    fault = "none"
        => \A nb \in 1 .. SerialCount :
               Ok(acquire(Heap, nb)) => AcquiredExactly(acquire(Heap, nb), nb)

\* the same for the runs that do not start at the last bit of a word
C31_ExactExceptAtWordEnd ==
    fault = "none"
        => \A nb \in 1 .. SerialCount :
               (Ok(acquire(Heap, nb)) /\ IndexOf(acquire(Heap, nb).r).b # Bits - 1)
                   => AcquiredExactly(acquire(Heap, nb), nb)

\* the searched interval holds nb consecutive unreserved superpages that
\* end before its last superpage
HasFreeRunBeforeEnd(nb) ==
    \E s \in LocalSuperpages :
        /\ s + nb < local_area_end
        /\ \A k \in s .. (s + nb - 1) : Unreserved(k)

(***************************************************************************)
(* C32: run alone, acquire (count) returns a range whenever the searched   *)
(* interval holds a run of count consecutive unreserved superpages,        *)
(* wherever the run lies: in one word, across words, after a partly       *)
(* occupied word, or ending exactly at the end of the interval.  It ends   *)
(* out of space only when there is no such run.                            *)
(***************************************************************************)
C32_FreeRunThenAcquired ==
    fault = "none"
        => \A nb \in 1 .. SerialCount : HasFreeRun(nb) => Ok(acquire(Heap, nb))

\* the same for the runs that end before the last superpage of the interval
C32_RunBeforeEndAcquired ==
    fault = "none"
        => \A nb \in 1 .. SerialCount : HasFreeRunBeforeEnd(nb) => Ok(acquire(Heap, nb))

(***************************************************************************)
(* ForwardList::Atomic (intrusive_list.h), the type of                     *)
(* remote_freed_blocks, on its own: the threads of Pushers push detached   *)
(* elements, the owner takes the whole list.  Every access to head is one  *)
(* step.  The relaxed load that opens a call reads the current head: a     *)
(* stale value is a value read by an earlier step.  A spurious failure of  *)
(* compare_exchange_weak stores in expected the value it already holds and *)
(* leaves the call where it was.                                           *)
(***************************************************************************)
\* the thread that owns the list: the first one
ListOwner == SetMin(Heaps)
Pushers == Heaps \ {ListOwner}

\* a compare_exchange that overwrites without comparing
compare_exchange_weak_blind(current, expected) == TRUE

\* head.compare_exchange_weak (expected, desired): succeeds only if head is expected
compare_exchange_weak(current, expected) == current = expected

\* the elements met by a walk from element p along the next fields, at most
\* fuel of them
RECURSIVE walk(_, _, _)
walk(nx, p, fuel) ==
    IF p = nullptr \/ fuel = 0 THEN <<>> ELSE <<p>> \o walk(nx, nx[p], fuel - 1)

\* ForwardList (previous): the elements of the list the owner obtained
ForwardList(previous) == walk(next, previous, ListElements + 1)

SeqToBag(s) ==
    [e \in {s[i] : i \in DOMAIN s} |-> Cardinality({i \in DOMAIN s : s[i] = e})]

ListFrame ==
    UNCHANGED <<tracker_vars, client_vars, spb, links, inbox, fault, foreign, adopters,
                live, nb_allocate>>

\* push_front (t): Element * expected = head.load (relaxed)
PushFrontLoad(t, e) ==
    /\ apc[t] = "idle"
    /\ BagIn(e, detached)
    /\ detached' = detached (-) SetToBag({e})
    /\ apc' = [apc EXCEPT ![t] = "push_cas"]
    /\ aloc' = [aloc EXCEPT ![t] = [NoLoc EXCEPT !.ptr = e, !.expected = head]]
    /\ UNCHANGED <<head, next>>
    /\ ListFrame

\* push_front (t): do { e.next = expected; } while (!head.compare_exchange_weak (expected, &e))
PushFrontCas(t) ==
    /\ apc[t] = "push_cas"
    /\ next' = [next EXCEPT ![aloc[t].ptr] = aloc[t].expected]
    /\ IF compare_exchange_weak(head, aloc[t].expected)
       THEN /\ head' = aloc[t].ptr
            /\ apc' = [apc EXCEPT ![t] = "idle"]
            /\ aloc' = [aloc EXCEPT ![t] = NoLoc]
       ELSE /\ head' = head
            /\ apc' = apc
            /\ aloc' = [aloc EXCEPT ![t].expected = head]
    /\ UNCHANGED detached
    /\ ListFrame

\* take_all (): Element * previous = head.load (relaxed)
TakeAllLoad(t) ==
    /\ apc[t] = "idle"
    /\ apc' = [apc EXCEPT ![t] = "take_cas"]
    /\ aloc' = [aloc EXCEPT ![t] = [NoLoc EXCEPT !.expected = head]]
    /\ UNCHANGED <<head, next, detached>>
    /\ ListFrame

\* take_all (): while (!head.compare_exchange_weak (previous, nullptr)); return
\* ForwardList (previous).  The caller walks the list it obtained and
\* detaches its elements
TakeAllCas(t) ==
    /\ apc[t] = "take_cas"
    /\ IF compare_exchange_weak(head, aloc[t].expected)
       THEN /\ head' = nullptr
            /\ detached' = detached (+) SeqToBag(ForwardList(aloc[t].expected))
            /\ apc' = [apc EXCEPT ![t] = "idle"]
            /\ aloc' = [aloc EXCEPT ![t] = NoLoc]
       ELSE /\ head' = head
            /\ detached' = detached
            /\ apc' = apc
            /\ aloc' = [aloc EXCEPT ![t].expected = head]
    /\ UNCHANGED next
    /\ ListFrame

ListNext ==
    \/ \E t \in Pushers : \E e \in Elements : PushFrontLoad(t, e)
    \/ \E t \in Pushers : PushFrontCas(t)
    \/ TakeAllLoad(ListOwner)
    \/ TakeAllCas(ListOwner)

ListSpec == AllocatorInit /\ [][ListNext]_vars

\* where element e is: detached, being pushed, on the list
Copies(e) ==
    CopiesIn(e, detached)
    + Cardinality({t \in Pushers : apc[t] = "push_cas" /\ aloc[t].ptr = e})
    + Cardinality({i \in DOMAIN ForwardList(head) : ForwardList(head)[i] = e})

(***************************************************************************)
(* C33: under every interleaving of push_front calls of several threads    *)
(* with take_all calls of the owner, every element pushed is in the list   *)
(* returned by exactly one take_all: none is lost, none is returned twice. *)
(* At any time an element is in one place only: detached (not pushed yet,  *)
(* or returned by a take_all), being pushed, or on the list.               *)
(***************************************************************************)
C33_PushedTakenOnce == \A e \in Elements : Copies(e) = 1

\* a take_all emptied the list between the load and the compare_exchange
\* of a push_front: the head the pusher expects has been returned to the
\* owner, and the other pusher is pushing too
C33_TakeAllDuringPush ==
    /\ \A t \in Pushers : apc[t] = "push_cas"
    /\ apc[ListOwner] = "idle"
    /\ head = nullptr
    /\ \E t \in Pushers : aloc[t].expected # nullptr /\ BagIn(aloc[t].expected, detached)

\* the superpages whose mapping bit the accesses ops have still to clear
RECURSIVE ToClear(_)
ToClear(ops) ==
    IF ops = <<>> THEN {}
    ELSE (IF Head(ops).tbl # "map" THEN {}
          ELSE IF Head(ops).kind = "store"
               THEN {superpage_num(Index(Head(ops).i, b)) : b \in BitIdx}
               ELSE {superpage_num(Index(Head(ops).i, b)) : b \in Head(ops).bits})
         \cup ToClear(Tail(ops))

\* the mapping bits the running call of thread t has set and not yet
\* handed over or cleared: those of a set_mapping_bits under way, of a run
\* reserved whose sequence bits are being written, of a rollback, a release
\* or a trim under way
InFlight(t) ==
    CASE pc[t] = "set_mid" -> superpage_num(loc[t].ls) .. (loc[t].idx * Bits - 1)
      [] pc[t] = "set_tail" -> superpage_num(loc[t].ls) .. (loc[t].le.a * Bits - 1)
      [] pc[t] = "ops" ->
            IF loc[t].after = "return"
            THEN superpage_num(loc[t].ls) .. (superpage_num(loc[t].le) - 1)
            ELSE ToClear(loc[t].todo)
      [] OTHER -> {}

HeldBy(t) == UNION {RangeOf(r) : r \in held[t]}

\* no mapping bit of a range a thread holds is clear
NoHeldBitCleared ==
    \A t \in Threads : \A n \in HeldBy(t) : ~Unreserved(n)

\* every mapping bit set is one of a range held or of a call under way
NoBitLeftSet ==
    \A n \in 0 .. (table_size * Bits - 1) :
        ~Unreserved(n) => \E t \in Threads : n \in HeldBy(t) \cup InFlight(t)

\* thread t is inside an acquire that has not reserved its run
Attempting(t) ==
    \/ pc[t] \in {"acq_load", "acq_mid", "acq_tail", "acq_cas", "set_first", "set_mid", "set_tail"}
    \/ pc[t] = "ops" /\ loc[t].after = "retry"

\* a step that changes the sequence table is not a step of an attempt
SequenceLeftByAttempts ==
    sequence_table' # sequence_table
        => \E t \in Threads : ~Attempting(t) /\ loc'[t] # loc[t]

(***************************************************************************)
(* C34: a set_mapping_bits over several words that fails part-way rolls    *)
(* back exactly the mapping bits it set itself.  No bit of a range another *)
(* thread holds is ever cleared by it, no bit of the failed attempt stays  *)
(* set (every set bit is one of a held range or of a call still running),  *)
(* and no step of an attempt writes the sequence table.                    *)
(***************************************************************************)
C34_RollbackExact ==
    /\ [](~Aborted => (NoHeldBitCleared /\ NoBitLeftSet))
    /\ [][SequenceLeftByAttempts]_vars

\* a rollback has its last access left, the fetch_and on the first word of
\* the attempt, while the other bit of that word belongs to a range that
\* another thread holds
C34_RollbackBesideHeldRange ==
    \E t \in Threads : \E u \in Threads \ {t} :
        /\ pc[t] = "ops" /\ loc[t].after = "retry" /\ Len(loc[t].todo) = 1
        /\ \E n \in HeldBy(u) : IndexOf(n).a = Head(loc[t].todo).i

\* the contract checks of allocate_page_block on its page count
allocate_page_block_contract(page_nb) == page_nb > 0 /\ page_nb < AvailablePages

\* the sizes of the medium requests
MediumSizes == SmallMedium .. (MediumHigh - 1)

\* h is the state create_page_block left after no owned SPB of thread t
\* could serve: one SPB more than now, of one superpage, one superpage more
\* reserved, and a page block of the new SPB returned
ServedByNewSpb(h) ==
    /\ Ok(h)
    /\ \E n \in LocalSuperpages :
          /\ ~spb[n].mapped
          /\ {m \in LocalSuperpages : h.spb[m].mapped} = LiveSpbs \cup {n}
          /\ h.spb[n].superpage_nb = 1
          /\ SetBits(h.mt) = SetBits(mapping_table) \cup {n}
          /\ h.pb[1] = n

\* no SPB owned by thread t serves a request of nb_page pages
NoOwnedSpbServes(t, nb_page) ==
    LET h == first_fit(Heap, t, links[ORoot(t)].next, nb_page, "Medium", MaxWalk)
    IN  Ok(h) /\ h.pb = NoPbh

\* the second half alone: the new SPB serves the retry, when the interval
\* has a superpage left
NewSpbServes(t) ==
    \A size \in MediumSizes :
        (HasFreeRun(1) /\ NoOwnedSpbServes(t, divide_up(size, PageSize)))
            => ServedByNewSpb(create_page_block(Heap, t, divide_up(size, PageSize), "Medium"))

(***************************************************************************)
(* C35: for every medium request (SmallMedium <= size < MediumHigh, the    *)
(* largest medium page count included) the page count passed to            *)
(* allocate_page_block satisfies its contract checks (page_nb > 0 and      *)
(* page_nb < AvailablePages), and when no owned SPB can serve the request  *)
(* exactly one new SPB of one superpage is reserved and the retry on it    *)
(* succeeds.                                                               *)
(***************************************************************************)
C35_MediumRequestInContract ==
    fault = "none"
        => /\ \A size \in MediumSizes :
                 allocate_page_block_contract(divide_up(size, PageSize))
           /\ \A t \in Heaps : apc[t] = "idle" => NewSpbServes(t)

\* the part of C35 about the new SPB
C35_NewSpbServesRetry ==
    fault = "none" => \A t \in Heaps : apc[t] = "idle" => NewSpbServes(t)

\* the live small blocks
LiveSmall == {b \in BagToSet(live) : b.size < SmallMedium}
\* the page of its superpage that the address p lies in, and the page
\* block header that page points to
PageOf(p) == (p - superpage(superpage_num_of(p))) \div PageSize
HeadOf(p) == spb[superpage_num_of(p)].pbh_table[PageOf(p)].head
\* b is the only live block of its page block
OnlyLiveCell(b) ==
    /\ CopiesIn(b, live) = 1
    /\ \A c \in LiveSmall \ {b} :
          superpage_num_of(c.ptr) = superpage_num_of(b.ptr) => HeadOf(c.ptr) # HeadOf(b.ptr)
\* in state h the page block i of SPB n is an Unused run again (or the SPB,
\* wholly unused, is gone) and it is in no active list
ReturnedToSpb(h, n, i) ==
    /\ ~h.spb[n].mapped \/ h.spb[n].pbh_table[i].type = "Unused"
    /\ h.links[AElem(n, i)] = reset(AElem(n, i))
\* the page block that holds the live small block b is a Small page block
\* of a live SPB
InSmallPageBlock(b) ==
    /\ superpage_num_of(b.ptr) \in LiveSpbs
    /\ spb[superpage_num_of(b.ptr)].pbh_table[HeadOf(b.ptr)].type = "Small"
\* no block passed to deallocate is still to be freed: no deallocate is
\* running and no remote free waits in an inbox
NoFreeUnderWay ==
    \A t \in Heaps : inbox[t] = <<>> /\ aloc[t].ptr = NoLoc.ptr
\* the owner of the SPB of b frees b: the page block goes back to the SPB
\* exactly when b was its only live cell
FreedWhenEmpty(b) ==
    LET n == superpage_num_of(b.ptr)
        h == deallocate(Heap, spb[n].owner, b.ptr)
    IN  /\ Ok(h)
        /\ ReturnedToSpb(h, n, HeadOf(b.ptr)) <=> OnlyLiveCell(b)
        /\ ~OnlyLiveCell(b) => /\ h.spb[n].mapped
                               /\ h.spb[n].pbh_table[HeadOf(b.ptr)].type = "Small"

(***************************************************************************)
(* C36: freeing a small block unlinks its page block from the active list  *)
(* and gives it back to the SPB as an Unused run if and only if the free   *)
(* leaves the page block with no live cell.  A Small page block that holds *)
(* a live cell is never destroyed: every live small block lies in a Small  *)
(* page block of a live SPB.                                               *)
(***************************************************************************)
C36_PageBlockFreedIffEmpty ==
    fault = "none" =>
       \A b \in LiveSmall :
          /\ InSmallPageBlock(b)
          /\ (NoFreeUnderWay /\ spb[superpage_num_of(b.ptr)].owner # nullptr
              /\ apc[spb[superpage_num_of(b.ptr)].owner] = "idle") => FreedWhenEmpty(b)

\* the cells of a list from cur up to its root, along the links lk
RECURSIVE CellsFrom(_, _, _, _)
CellsFrom(lk, root, cur, fuel) ==
    IF cur = root \/ fuel = 0 THEN <<>>
    ELSE <<cur>> \o CellsFrom(lk, root, lk[cur].next, fuel - 1)

\* the elements of the slots 1 .. k of the unused quicklist of SPB n, along lk
RECURSIVE QuickEntries(_, _, _)
QuickEntries(lk, n, k) ==
    IF k = 0 THEN <<>>
    ELSE QuickEntries(lk, n, k - 1) \o CellsFrom(lk, URoot(n, k), lk[URoot(n, k)].next, MaxWalk)

\* h is the state allocate_page_block (page_nb, type) on SPB n left when it
\* returned header i: i was the head of an Unused run of len >= page_nb
\* pages, its first page_nb pages are one run of the type asked, the rest
\* is one Unused run which is in the quicklist, and no other record changed
TookRun(h, n, i, page_nb, type) ==
    LET len == RunLength(n, i)
        now == QuickEntries(links, n, bigger_sizes)
        then == QuickEntries(h.links, n, bigger_sizes)
        tail == IF len > page_nb THEN {UElem(n, i + page_nb)} ELSE {}
    IN  /\ i \in UnusedHeads(n)
        /\ len >= page_nb
        /\ \A j \in Pages :
              IF i <= j /\ j < i + page_nb
              THEN h.spb[n].pbh_table[j] =
                     [spb[n].pbh_table[j] EXCEPT !.type = type, !.head = i, !.nb_page = page_nb]
              ELSE IF i + page_nb <= j /\ j < i + len
              THEN h.spb[n].pbh_table[j] =
                     [spb[n].pbh_table[j] EXCEPT !.type = "Unused", !.head = i + page_nb,
                                                 !.nb_page = len - page_nb]
              ELSE h.spb[n].pbh_table[j] = spb[n].pbh_table[j]
        /\ {then[j] : j \in DOMAIN then} = ({now[j] : j \in DOMAIN now} \ {UElem(n, i)}) \cup tail
        /\ Len(then) = Len(now) - 1 + Cardinality(tail)

\* allocate_page_block (page_nb, type) on SPB n by its owner t fails and
\* leaves the SPB as it is, or takes a run
FailsOrTakesRun(h, n, page_nb, type) ==
    /\ Ok(h)
    /\ \A m \in LocalSuperpages \ {n} : h.spb[m] = spb[m]
    /\ IF h.r = -1
       THEN h.spb[n] = spb[n] /\ h.links = links
       ELSE TookRun(h, n, h.r, page_nb, type)

(***************************************************************************)
(* C37: allocate_page_block (K, T) on an SPB either fails and leaves the   *)
(* SPB unchanged, or takes one Unused run of at least K pages, formats     *)
(* exactly its first K pages as one run of type T, puts the rest of the    *)
(* run, if any, back in the quicklist as one Unused run, and changes no    *)
(* page record outside the run taken.                                      *)
(***************************************************************************)
C37_TakesOneUnusedRun ==
    fault = "none" =>
       \A n \in LiveSpbs :
          (spb[n].owner # nullptr /\ apc[spb[n].owner] = "idle") =>
             \A page_nb \in 1 .. AvailablePages : \A type \in {"Small", "Medium"} :
                FailsOrTakesRun(allocate_page_block(Heap, spb[n].owner, n, page_nb, type),
                                n, page_nb, type)

\* the live SPBs that no thread owns
Orphans == {n \in LiveSpbs : spb[n].owner = nullptr}

\* every superpage of SPB n is reserved in the tracker and mapped
ReservedAndMapped(n) ==
    \A num \in n .. (n + Max(spb[n].superpage_nb, 1) - 1) :
        MappingBit(Heap, num) /\ IsMapped(Heap, num)

\* no Small page block of SPB n is linked in an active list
NotInActiveLists(n) ==
    \A i \in SmallHeads(n) :
        /\ links[AElem(n, i)] = reset(AElem(n, i))
        /\ \A t \in Heaps : \A sc \in SizeClasses :
              Times(ActiveCells(t, sc), AElem(n, i)) = 0

(***************************************************************************)
(* C38: after the heap of a thread was destroyed at thread exit, every SPB *)
(* it owned that still holds live allocations has a null owner (until a    *)
(* thread adopts it), is still reserved in the tracker and mapped, and     *)
(* none of its Small page blocks is linked in an active list of any        *)
(* thread.                                                                 *)
(***************************************************************************)
C38_DisownedSpbsKept ==
    fault = "none" =>
       /\ \A t \in Heaps : apc[t] = "exited" => \A n \in LiveSpbs : spb[n].owner # t
       /\ \A n \in Orphans : ReservedAndMapped(n) /\ NotInActiveLists(n)

\* a thread has exited and left an SPB of two Small page blocks, one of
\* them full and one partly used, that holds live blocks
C38_OrphanWithSmallBlocks ==
    /\ fault = "none"
    /\ \E t \in Heaps : apc[t] = "exited"
    /\ \E n \in Orphans :
          /\ Cardinality(SmallHeads(n)) >= 2
          /\ \E b \in BagToSet(live) : superpage_num_of(b.ptr) = n

\* the counts the threads of RetrySpec pass to acquire: runs in one word,
\* over two words and over three words
RetryCounts == {2, 3}

\* thread t calls acquire, release or trim
RetryCall(t) ==
    \/ \E nb \in RetryCounts : AcquireCall(t, nb) /\ TrackerFrame
    \/ \E r \in held[t] : ReleaseCall(t, r) /\ TrackerFrame
    \/ \E r \in held[t] : TrimCall(t, r) /\ TrackerFrame

\* thread t performs the next atomic access of its running call
RetryRun(t) ==
    \/ AcquireLoad(t) /\ TrackerFrame
    \/ AcquireLoadMiddle(t) /\ TrackerFrame
    \/ AcquireLoadTail(t) /\ TrackerFrame
    \/ AcquireCasOneCell(t) /\ TrackerFrame
    \/ SetFirst(t) /\ TrackerFrame
    \/ SetMiddle(t) /\ TrackerFrame
    \/ SetTail(t) /\ TrackerFrame
    \/ DoOp(t) /\ TrackerFrame

RetryNext ==
    \/ \E t \in Threads : RetryCall(t)
    \/ \E t \in Threads : RetryRun(t)

\* a thread inside a call is scheduled again and again; nothing makes a
\* thread call the tracker
RetrySpec ==
    TrackerSpecInit /\ [][RetryNext]_vars /\ \A t \in Threads : WF_vars(RetryRun(t))

\* thread t is inside acquire
InAcquire(t) ==
    \/ pc[t] \in {"acq_load", "acq_mid", "acq_tail", "acq_cas", "set_first", "set_mid", "set_tail"}
    \/ pc[t] = "ops" /\ loc[t].after \in {"retry", "return"}

\* the acquire of thread t ends, or the other thread u calls the tracker
\* again and again
EndsUnlessDisturbedForEver(t, u) ==
    \/ []<><<RetryCall(u)>>_vars
    \/ InAcquire(t) ~> (~InAcquire(t) \/ Aborted)

\* the threads are never all inside acquire for ever
SomeAcquireEnds == []<>((\E t \in Threads : ~InAcquire(t)) \/ Aborted)

(***************************************************************************)
(* C39: every acquire call terminates.  When the other threads perform     *)
(* only finitely many tracker operations, a thread inside acquire          *)
(* eventually leaves it: the call returns a range or ends out of space.    *)
(* Of the acquire calls that retry concurrently at least one makes         *)
(* progress: no interleaving keeps all of them retrying for ever.          *)
(***************************************************************************)
C39_AcquireTerminates ==
    /\ \A t \in Threads : \A u \in Threads \ {t} : EndsUnlessDisturbedForEver(t, u)
    /\ SomeAcquireEnds

\* both threads are inside acquire and one of them is rolling back a
\* set_mapping_bits that failed, to retry
C39_BothAcquiringOneRetries ==
    /\ \A t \in Threads : InAcquire(t)
    /\ \E t \in Threads : pc[t] = "ops" /\ loc[t].after = "retry"

\* the base address of the block that a call returns is a multiple of a
BaseMultipleOf(h, a) == Ok(h) => h.blk.ptr % a = 0

=============================================================================
